---- MODULE Spec2Model ----
(***************************************************************************)
(* Model of the agent-intervention pipeline of process-gpt-completion      *)
(* (src/agent_intervention.py, src/mem0_agent_client.py).                   *)
(*                                                                         *)
(* Scheduling: process_user_message_with_intervention contains no await,   *)
(* so one ingress call is one atomic step; a pipeline task suspends only   *)
(* at its awaits (the decision inference, the named agent responder, the   *)
(* default responder inference), so each action of a task is the code      *)
(* between two awaits.  Store calls are synchronous.                       *)
(***************************************************************************)
EXTENDS Integers, Sequences, FiniteSets, TLC

\* ------------------------------------------------------------------ bounds
MaxMsgs == 2        \* rows of group_chat_messages that hold user messages
MaxCalls == 2       \* ingress calls

MsgIds == 1..MaxMsgs

\* ------------------------------------------------------- text and names
\* Strings are sequences of one-character strings.
WordChars == {"a", "b", "g", "o", "t", "x", "h", "i", "k", "A", "B", "e", "n"}

Lower(c) == IF c = "A" THEN "a" ELSE IF c = "B" THEN "b" ELSE c

LowerStr(s) == [i \in 1..Len(s) |-> Lower(s[i])]

\* Python's `sub in s` for strings.
Contains(s, sub) ==
    \E i \in 0..(Len(s) - Len(sub)) :
        \A j \in 1..Len(sub) : s[i + j] = sub[j]

\* Length of the maximal run of word characters of s starting at index i.
RECURSIVE WordRun(_, _)
WordRun(s, i) ==
    IF i > Len(s) \/ s[i] \notin WordChars THEN 0 ELSE 1 + WordRun(s, i + 1)

\* re.findall(r'@(\w+)', text), scanning from index i.
RECURSIVE FindMentionsFrom(_, _)
FindMentionsFrom(text, i) ==
    IF i > Len(text) THEN << >>
    ELSE IF text[i] = "@" /\ WordRun(text, i + 1) > 0
         THEN LET n == WordRun(text, i + 1)
              IN  << SubSeq(text, i + 1, i + n) >> \o FindMentionsFrom(text, i + n + 1)
         ELSE FindMentionsFrom(text, i + 1)

FindMentions(text) == FindMentionsFrom(text, 1)

TextPlain == << "h", "i" >>
TextAtBot == << "@", "B", "o", "t", " ", "h", "i" >>
Texts == {TextPlain, TextAtBot}

NameKim == << "k", "i", "n" >>
NameBot == << "b", "o", "t" >>
NameAgent == << "A", "g", "e", "n", "t" >>
NameDefaultAgent == << "e", "i" >>      \* the literal "에이전트"
NameDefaultUser == << "x", "x" >>       \* the literal "사용자"
NameAssistant == << "A", "i" >>         \* the literal "AI 어시스턴트"
NameLowerAgent == << "a", "g", "e", "n", "t" >>
NameNone == << "None" >>                \* a username that is null, no string

\* Keywords of the name heuristic (the list holds four; the model's names
\* only ever contain the third, "Agent").
AgentKeywords == { NameAgent }

\* --------------------------------------------------------------- rooms
Rooms == {"G", "P"}

\* chat_rooms.chat_type of each room.
ChatType(room) == IF room = "G" THEN "group" ELSE "normal"

\* Members of a room's participants column.  `info` is what fetch_user_info
\* answers for the member: "agent", "human" (a record without is_agent) or
\* "fail" (the lookup raises).
Member(id, hasEmail, username, info, agentType) ==
    [id |-> id, hasEmail |-> hasEmail, username |-> username,
     info |-> info, agent_type |-> agentType]

mH1 == Member("u1", TRUE, NameKim, "human", "agent")
mH2 == Member("u2", TRUE, << >>, "fail", "agent")
mA1 == Member("a1", FALSE, NameBot, "agent", "translation")
mA2 == Member("a2", FALSE, NameAgent, "fail", "agent")

\* The members the resolver is applied to on its own: the four above, the
\* id a1 with a handle and a human record, a keyword name with a handle and
\* a failing lookup, an agent with a handle, a member without id, and
\* members without handle: a failing lookup with no keyword in the name,
\* with a null name and with the keyword in lower case, and a human.
MemberPool ==
    { mH1, mH2, mA1, mA2,
      Member("a1", TRUE, NameKim, "human", "agent"),
      Member("a2", TRUE, NameAgent, "fail", "agent"),
      Member("a3", TRUE, NameBot, "agent", "agent"),
      Member("", FALSE, NameBot, "agent", "agent"),
      Member("u3", FALSE, NameKim, "fail", "agent"),
      Member("u4", FALSE, NameNone, "fail", "agent"),
      Member("u5", FALSE, << >>, "human", "agent"),
      Member("u6", FALSE, NameLowerAgent, "fail", "agent") }

\* One human with one agent, and two humans with one agent listed twice.
Memberships ==
    { << mH1, mA1 >>,
      << mH1, mH2, mA1, mA1 >> }

\* ------------------------------------------------- Participant Resolver
HasId(seq, id) == \E i \in 1..Len(seq) : seq[i].id = id

\* `username or default`: an empty and a null username take the default.
HasName(username) == username \notin {<< >>, NameNone}

\* One member classified as the loop body of get_chat_room_participants does.
ClassifyMember(p) ==
    IF ~p.hasEmail
    THEN IF p.info = "agent"
         THEN [kind |-> "agent", id |-> p.id,
               username |-> IF HasName(p.username) THEN p.username ELSE NameDefaultAgent,
               agent_type |-> p.agent_type]
         ELSE IF p.info = "human"
         THEN [kind |-> "user", id |-> p.id,
               username |-> IF HasName(p.username) THEN p.username ELSE NameDefaultUser,
               agent_type |-> "none"]
         ELSE IF \E k \in AgentKeywords : Contains(p.username, k)
         THEN [kind |-> "agent", id |-> p.id, username |-> p.username,
               agent_type |-> "agent"]
         ELSE [kind |-> "user", id |-> p.id,
               username |-> IF HasName(p.username) THEN p.username ELSE NameDefaultUser,
               agent_type |-> "none"]
    ELSE IF p.info = "agent"
         THEN [kind |-> "agent", id |-> p.id,
               username |-> IF HasName(p.username) THEN p.username ELSE NameDefaultAgent,
               agent_type |-> p.agent_type]
         ELSE [kind |-> "user", id |-> p.id,
               username |-> IF HasName(p.username) THEN p.username ELSE NameDefaultUser,
               agent_type |-> "none"]

\* The keyword test `keyword in username` of the inner handler (line 249)
\* raises for a null username; raised inside the handler, the error leaves
\* the loop.
KeywordTestRaises(p) == ~p.hasEmail /\ p.info = "fail" /\ p.username = NameNone

RECURSIVE ResolveFrom(_, _, _, _)
ResolveFrom(list, i, users, agents) ==
    IF i > Len(list) THEN [users |-> users, agents |-> agents]
    ELSE IF \/ list[i].id = ""
            \/ HasId(users, list[i].id) \/ HasId(agents, list[i].id)
         THEN ResolveFrom(list, i + 1, users, agents)
         ELSE IF KeywordTestRaises(list[i])
         THEN [users |-> << >>, agents |-> << >>]
         ELSE LET c == ClassifyMember(list[i])
              IN  IF c.kind = "agent"
                  THEN ResolveFrom(list, i + 1, users, Append(agents, c))
                  ELSE ResolveFrom(list, i + 1, Append(users, c), agents)

\* get_chat_room_participants: two empty lists when the room query fails.
get_chat_room_participants(list, queryOk) ==
    IF queryOk THEN ResolveFrom(list, 1, << >>, << >>)
    ELSE [users |-> << >>, agents |-> << >>]

\* ---------------------------------------------------------- Mention Router
\* A comparison that accepts only a name containing the token.
NameMatches_oneway(mention, agentName) ==
    Contains(LowerStr(agentName), LowerStr(mention))

NameMatches(mention, agentName) ==
    \/ Contains(LowerStr(agentName), LowerStr(mention))
    \/ Contains(LowerStr(mention), LowerStr(agentName))

\* Index of the first agent matching the mention, 0 if none.
FirstAgentFor(mention, agents) ==
    IF \E i \in 1..Len(agents) : NameMatches(mention, agents[i].username)
    THEN CHOOSE i \in 1..Len(agents) :
            /\ NameMatches(mention, agents[i].username)
            /\ \A j \in 1..(i - 1) : ~NameMatches(mention, agents[j].username)
    ELSE 0

\* The nested loop of the mention check: index of the mentioned agent, 0 if none.
MentionedAgent(text, agents) ==
    LET mentions == FindMentions(text)
        hits == {k \in 1..Len(mentions) : FirstAgentFor(mentions[k], agents) # 0}
    IN  IF hits = {} THEN 0
        ELSE FirstAgentFor(mentions[CHOOSE k \in hits : \A l \in hits : k <= l], agents)

\* ---------------------------------------------------------- Activation Gate
\* The gate with its second condition loosened to one human and one agent.
should_activate_intervention_lax(users, agents) ==
    LET user_count == Len(users)
        agent_count == Len(agents)
        condition1 == user_count >= 1 /\ agent_count >= 2
        condition2 == user_count >= 1 /\ agent_count >= 1
    IN  condition1 \/ condition2

should_activate_intervention(users, agents) ==
    LET user_count == Len(users)
        agent_count == Len(agents)
        condition1 == user_count >= 1 /\ agent_count >= 2
        condition2 == user_count >= 2 /\ agent_count >= 1
    IN  condition1 \/ condition2

\* ------------------------------------------------------------ stored data
\* A reason string, by its kind and the values interpolated into it.
Reason(kind, nUsers, nAgents, name) ==
    [kind |-> kind, users |-> nUsers, agents |-> nAgents, name |-> name]

NoReason == Reason("absent", 0, 0, << >>)
ReasonOf(kind) == Reason(kind, 0, 0, << >>)

\* The intervention sub-object of json_content.  An absent key is "absent";
\* should_intervene is "null", "true" or "false"; selected_agent_id is
\* "absent", "None" or an agent id.
Intervention(status, should, reason, selected) ==
    [status |-> status, should_intervene |-> should, reason |-> reason,
     selected_agent_id |-> selected]

NoIntervention == Intervention("none", "absent", NoReason, "absent")
CheckingInfo == Intervention("checking", "null", NoReason, "absent")

\* A row of group_chat_messages holding a user message.  json is "null" or
\* "dict"; other is the rest of json_content; col is intervention_status.
NoMsg ==
    [exists |-> FALSE, room |-> "G", text |-> << >>, sender |-> "none",
     json |-> "null", other |-> "none", intervention |-> NoIntervention,
     col |-> "null"]

Terminal == {"not_intervening", "completed", "failed"}

FrontMsg(room, text) ==
    [exists |-> TRUE, room |-> room, text |-> text, sender |-> "u1",
     json |-> "dict", other |-> "front", intervention |-> NoIntervention,
     col |-> "null"]

VARIABLES
    msgs,           \* group_chat_messages: user messages by id
    chats,          \* chats: user messages of non-group rooms
    responses,      \* response messages appended by pipelines
    auditLogs,      \* agent_intervention_logs rows
    tasks,          \* pipeline instances created by asyncio.create_task
    calls,          \* number of ingress calls so far
    ingress,        \* what the last ingress call returned
    submits,        \* per message id, the ingress calls that scheduled it
    gateCase,       \* the Activation Gate applied to a pair of lists (SpecGate)
    resolverCase,   \* the Participant Resolver applied to a membership list (SpecResolver)
    routerCase,     \* the Mention Router applied to a text and agents (SpecRouter)
    historyCase,    \* format_recent_history applied to a history (SpecHistory)
    catalogueCase,  \* format_agents_info applied to one agent (SpecCatalogue)
    engineCase,     \* the Decision Engine applied to an inference output (SpecEngine)
    notifyCase,     \* one call of process_outbound_notify (SpecNotify)
    versionCase     \* the process-definition lookup applied to a store (SpecVersion)

vars == << msgs, chats, responses, auditLogs, tasks, calls, ingress, submits, gateCase,
          resolverCase, routerCase, historyCase,
          catalogueCase, engineCase, notifyCase, versionCase >>

NoResult == [outcome |-> "none", message_saved |-> FALSE, message_id |-> 0,
             status |-> "none"]

NoGateCase == [users |-> << >>, agents |-> << >>, applied |-> FALSE, result |-> FALSE]

\* Message 1 was stored by the front end, which submits its id; everything
\* else is empty.
InitStore ==
    /\ msgs = [m \in MsgIds |-> IF m = 1 THEN FrontMsg("G", TextPlain) ELSE NoMsg]
    /\ chats = << >>
    /\ responses = {}
    /\ auditLogs = << >>
    /\ tasks = << >>
    /\ calls = 0
    /\ ingress = NoResult
    /\ submits = [m \in MsgIds |-> 0]

NoResolverCase == [list |-> << >>, queryOk |-> FALSE, applied |-> FALSE,
                   result |-> [users |-> << >>, agents |-> << >>]]

NoRouterCase == [text |-> << >>, agents |-> << >>, applied |-> FALSE, result |-> 0]

NoHistoryCase == [history |-> << >>, applied |-> FALSE, result |-> << >>]

NoCatalogueCase == [agent_type |-> "absent", username |-> << >>, applied |-> FALSE,
                    result |-> [agent_type |-> "agent",
                                capabilities |-> [text |-> "none", type |-> ""]]]

NoEngineCase ==
    [raw |-> [shape |-> "raise", fence |-> "none", should_intervene |-> "absent",
              reason |-> "absent", selected_agent_id |-> "absent"],
     applied |-> FALSE,
     result |-> [should_intervene |-> FALSE, reason |-> NoReason,
                 selected_agent_id |-> "None"]]

\* One call of process_outbound_notify: its arguments, what the user lookup,
\* the queue insert, the telephony request and the first and second status
\* update do, and after the call the status of the queue record ("none":
\* no record was inserted) and whether the call raised.
NoNotifyCase ==
    [workitem_status |-> "DONE", user |-> "none", prefer_contact |-> "null",
     phone_number |-> FALSE, insertOk |-> FALSE, requestOk |-> FALSE,
     updateOk |-> << FALSE, FALSE >>, applied |-> FALSE,
     channel |-> "none", queue |-> "none", raised |-> FALSE]

\* One call of fetch_process_definition_by_version_ts_style: its arguments
\* (arcv_id and version: whether given; fetcher: whether fetch_arcv_rows is
\* given), what each query answers ("raise", "empty" or "row"; for the
\* version lists the versions of the rows found, listsOk: whether those
\* queries answer at all), the proc_def query ("raise", "none": no row,
\* "plain": a row without prod_version, "prod": with one), and the result:
\* the source the returned definition comes from ("none": the call returns
\* None without looking, "raised": the call raises) and the version of a row
\* taken from a version list.
NoVersionCase ==
    [def_id |-> "", arcv_id |-> FALSE, fetcher |-> FALSE, arcvRows |-> "empty",
     version_tag |-> "absent", version |-> FALSE, exactRows |-> "empty",
     proc_def |-> "none", prodArcvRows |-> "empty", prodVersionRows |-> "empty",
     majorRows |-> << >>, minorRows |-> << >>, listsOk |-> TRUE, applied |-> FALSE,
     result |-> [from |-> "none", version |-> ""]]

Init ==
    /\ InitStore
    /\ gateCase = NoGateCase
    /\ resolverCase = NoResolverCase
    /\ routerCase = NoRouterCase
    /\ historyCase = NoHistoryCase
    /\ catalogueCase = NoCatalogueCase
    /\ engineCase = NoEngineCase
    /\ notifyCase = NoNotifyCase
    /\ versionCase = NoVersionCase

\* A topology lookup that takes every room it finds for a group room.
is_group_chat_any(room, lookupOk) == lookupOk

\* ------------------------------------------------------------ Status Tracker
\* is_group_chat: False when the lookup fails.
is_group_chat(room, lookupOk) == lookupOk /\ ChatType(room) = "group"

\* A status write that stores {"intervention": info} as the whole json_content.
update_message_intervention_replace(ms, room, message_id, info, ok) ==
    IF ~ok THEN ms
    ELSE IF is_group_chat(room, TRUE)
    THEN IF message_id \in MsgIds /\ ms[message_id].exists
         THEN [ms EXCEPT ![message_id] =
                  [@ EXCEPT !.json = "dict",
                            !.other = "none",
                            !.intervention = info,
                            !.col = info.status]]
         ELSE ms
    ELSE ms

\* update_message_intervention.  ok = FALSE is any failure inside it (no
\* client, the room lookup or a store call raising): swallowed, no write.
update_message_intervention(ms, room, message_id, info, ok) ==
    IF ~ok THEN ms
    ELSE IF is_group_chat(room, TRUE)
    THEN IF message_id \in MsgIds /\ ms[message_id].exists
         THEN [ms EXCEPT ![message_id] =
                  [@ EXCEPT !.json = "dict",
                            !.other = IF ms[message_id].json = "dict" THEN @ ELSE "none",
                            !.intervention = info,
                            !.col = info.status]]
         ELSE ms
    ELSE ms

\* The in-line "completed" write of the dispatch branches: only the status
\* key of an existing, non-empty intervention object is changed; withCol
\* says whether the intervention_status column is part of the update.
MarkCompleted(ms, room, message_id, withCol, lookupOk, ok) ==
    IF ~ok THEN ms
    ELSE IF is_group_chat(room, lookupOk)
    THEN IF /\ message_id \in MsgIds
            /\ ms[message_id].exists
            /\ ms[message_id].json = "dict"
            /\ ms[message_id].intervention.status # "none"
         THEN [ms EXCEPT ![message_id] =
                  [@ EXCEPT !.intervention = [@ EXCEPT !.status = "completed"],
                            !.col = IF withCol THEN "completed" ELSE @]]
         ELSE ms
    ELSE ms

\* ------------------------------------------------------------- Audit Logger
AuditRow(message_id, status, should, selected, name) ==
    [message_id |-> message_id, status |-> status, should_intervene |-> should,
     selected_agent_id |-> selected, selected_agent_name |-> name]

\* A row lookup that is not restricted to the message id.
FirstRowFor_any(logs, message_id) == IF logs # << >> THEN 1 ELSE 0

FirstRowFor(logs, message_id) ==
    IF \E i \in 1..Len(logs) : logs[i].message_id = message_id
    THEN CHOOSE i \in 1..Len(logs) :
            /\ logs[i].message_id = message_id
            /\ \A j \in 1..(i - 1) : logs[j].message_id # message_id
    ELSE 0

\* An audit write that inserts a row on every call.
save_intervention_log_insert(logs, ms, row, ok) ==
    IF ~ok THEN logs
    ELSE IF row.message_id \in MsgIds /\ ms[row.message_id].exists
    THEN Append(logs, row)
    ELSE logs

\* save_intervention_log: update the first row found for the message id, else
\* insert; keys the call leaves out keep their stored value.  The insert
\* needs the referenced group_chat_messages row (foreign key); any failure is
\* swallowed.
save_intervention_log(logs, ms, row, ok) ==
    LET i == FirstRowFor(logs, row.message_id)
    IN  IF ~ok THEN logs
        ELSE IF i # 0
        THEN [logs EXCEPT ![i] =
                [@ EXCEPT !.status = row.status,
                          !.should_intervene =
                              IF row.should_intervene # "null" THEN row.should_intervene ELSE @,
                          !.selected_agent_id =
                              IF row.selected_agent_id \notin {"None", ""}
                              THEN row.selected_agent_id ELSE @,
                          !.selected_agent_name =
                              IF row.selected_agent_name # << >>
                              THEN row.selected_agent_name ELSE @]]
        ELSE IF row.message_id \in MsgIds /\ ms[row.message_id].exists
        THEN Append(logs, row)
        ELSE logs

\* ----------------------------------------------------------- Decision Engine
\* What the inference call of the Decision Engine produced: it raised
\* ("raise"), or returned text that is not JSON ("text"), JSON that is not an
\* object ("nonobject") or a JSON object ("object") with the given fields.
\* fence is how the text is wrapped: "none", "json" (```json ... ```),
\* "plain" (``` ... ```) or "prefixed" (prose before the fence).
LlmDecision(shape, fence, should, reason, selected) ==
    [shape |-> shape, fence |-> fence, should_intervene |-> should,
     reason |-> reason, selected_agent_id |-> selected]

DecisionOutputs ==
    { LlmDecision("raise", "none", "absent", "absent", "absent"),
      LlmDecision("text", "none", "absent", "absent", "absent"),
      LlmDecision("nonobject", "json", "absent", "absent", "absent"),
      LlmDecision("object", "prefixed", "true", "given", "a1"),
      LlmDecision("object", "none", "false", "given", "None"),
      LlmDecision("object", "plain", "absent", "absent", "a1"),
      LlmDecision("object", "none", "null", "given", "None"),
      LlmDecision("object", "json", "true", "given", "a1"),
      LlmDecision("object", "none", "true", "absent", "zz"),
      LlmDecision("object", "none", "true", "given", "default"),
      LlmDecision("object", "none", "true", "given", "absent"),
      LlmDecision("object", "none", "true", "given", "None"),
      LlmDecision("object", "none", "true", "given", ""),
      LlmDecision("object", "none", "str_false", "given", "a1") }

\* The fence stripping before json.loads: only a fence at the very start of
\* the text is removed, so prefixed text reaches json.loads with its prose.
Decodable(raw) == raw.shape # "text" /\ raw.fence # "prefixed"

\* Python truthiness of decision.get("should_intervene", False).
Truthy(should) == should \in {"true", "str_false"}

EngineResult(should, reason, selected) ==
    [should_intervene |-> should, reason |-> reason, selected_agent_id |-> selected]

NoEngineResult == EngineResult(FALSE, NoReason, "None")

\* check_intervention_and_select_agent, from the inference outcome on.
check_intervention_and_select_agent(raw) ==
    IF raw.shape = "raise"
    THEN EngineResult(FALSE, ReasonOf("engine_error"), "None")
    ELSE IF ~Decodable(raw) \/ raw.shape = "nonobject"
    THEN EngineResult(FALSE, ReasonOf("decode_failure"), "None")
    ELSE IF Truthy(raw.should_intervene)
    THEN EngineResult(TRUE,
                      IF raw.reason = "absent" THEN ReasonOf("default_yes") ELSE ReasonOf("llm"),
                      IF raw.selected_agent_id = "absent" THEN "default"
                      ELSE raw.selected_agent_id)
    ELSE EngineResult(FALSE,
                      IF raw.reason = "absent" THEN ReasonOf("default_no") ELSE ReasonOf("llm"),
                      "None")

\* ---------------------------------------------------------------- responders
\* What the inference call of the named agent produced (or "raise" when the
\* memory search or the inference call raised).  umid is a user_message_id
\* key of the returned object.
LlmAnswer(shape, content, html, umid) ==
    [shape |-> shape, content |-> content, html |-> html, umid |-> umid]

AgentOutputs ==
    { LlmAnswer("raise", "absent", "absent", "absent"),
      LlmAnswer("nonobject", "absent", "absent", "absent"),
      LlmAnswer("text", "absent", "absent", "absent"),
      LlmAnswer("object", "given", "given", "absent"),
      LlmAnswer("object", "absent", "absent", "other") }

\* A client that wraps a JSON value that is not an object instead of failing
\* on it.
process_mem0_message_with_history_lax(out) ==
    IF out.shape = "raise"
    THEN [raised |-> TRUE, dict |-> FALSE, content |-> "absent", html |-> "absent",
          type |-> "absent", umid |-> "absent"]
    ELSE IF out.shape = "nonobject"
    THEN [raised |-> FALSE, dict |-> FALSE, content |-> "absent", html |-> "absent",
          type |-> "absent", umid |-> "absent"]
    ELSE IF out.shape = "text"
    THEN [raised |-> FALSE, dict |-> TRUE, content |-> "raw", html |-> "absent",
          type |-> "query", umid |-> "absent"]
    ELSE [raised |-> FALSE, dict |-> TRUE, content |-> out.content, html |-> out.html,
          type |-> "query", umid |-> out.umid]

\* process_mem0_message_with_history: the "response" member of its result
\* (dict: it is a JSON object), or raised = TRUE.  A JSON value that is not an
\* object cannot take the "type" key, and the TypeError leaves as an
\* HTTPException.
process_mem0_message_with_history(out) ==
    IF out.shape \in {"raise", "nonobject"}
    THEN [raised |-> TRUE, dict |-> FALSE, content |-> "absent", html |-> "absent",
          type |-> "absent", umid |-> "absent"]
    ELSE IF out.shape = "text"
    THEN [raised |-> FALSE, dict |-> TRUE, content |-> "raw", html |-> "absent",
          type |-> "query", umid |-> "absent"]
    ELSE [raised |-> FALSE, dict |-> TRUE, content |-> out.content, html |-> out.html,
          type |-> "query", umid |-> out.umid]

\* A copy of the payload that keeps a user_message_id the payload brings.
agent_json_data_keep(agent_response_data, message_id) ==
    [user_message_id |-> IF agent_response_data.umid = "absent" THEN message_id ELSE 0]

\* agent_json_data: a copy of the payload (an empty object when the payload is
\* not one) with user_message_id set to the id of the user's message.
agent_json_data(agent_response_data, message_id) ==
    [user_message_id |-> message_id]

\* A message body that stores the fields of the payload as they come.
agent_message_data_raw(agent_response_data) ==
    [content |-> agent_response_data.content, html |-> agent_response_data.html]

\* agent_message_data: content and html of the stored answer, an absent
\* content being stored as the empty string and an absent html_content as
\* None.
agent_message_data(agent_response_data) ==
    [content |-> IF agent_response_data.content = "absent" THEN "empty"
                 ELSE agent_response_data.content,
     html |-> IF agent_response_data.html = "absent" THEN "None"
              ELSE agent_response_data.html]

\* get_default_llm_response: the answer, or the apology when the history
\* fetch or the inference call raised.
DefaultOutputs == {"answer", "raise"}

\* A Default Responder without handler: the failure is what it hands on.
get_default_llm_response_raw(out) == out

get_default_llm_response(out) == IF out = "raise" THEN "apology" ELSE "answer"

\* A response message as upsert_chat_message / upsert_group_chat_message
\* stores it; store is the table, n the number of the append within its task.
ResponseRow(task, n, store, room, name, content, html, umid) ==
    [task |-> task, n |-> n, store |-> store, room |-> room, name |-> name,
     content |-> content, html |-> html, user_message_id |-> umid]

AppendsOf(t) == {r \in responses : r.task = t}

\* A lookup that takes the first agent of the list for an id it does not
\* find.
AgentNameOf_first(agents, id, default) ==
    IF \E i \in 1..Len(agents) : agents[i].id = id
    THEN agents[CHOOSE i \in 1..Len(agents) :
                    /\ agents[i].id = id
                    /\ \A j \in 1..(i - 1) : agents[j].id # id].username
    ELSE IF agents # << >> THEN agents[1].username ELSE default

\* Display name of the agent with the given id in the resolved list.
AgentNameOf(agents, id, default) ==
    IF \E i \in 1..Len(agents) : agents[i].id = id
    THEN agents[CHOOSE i \in 1..Len(agents) :
                    /\ agents[i].id = id
                    /\ \A j \in 1..(i - 1) : agents[j].id # id].username
    ELSE default

\* --------------------------------------------------------------------- tasks
\* A task that the ingress call runs up to its first await before returning.
NewTask_eager(message_id, text, room) ==
    [pc |-> "await_decision", message_id |-> message_id, text |-> text, room |-> room,
     users |-> << >>, agents |-> << >>, is_group |-> FALSE,
     result |-> NoEngineResult, agent_id |-> "None",
     log |-> << "resolver", "router_miss", "gate_open", "engine" >>]

\* A pipeline instance.  pc is the await it is suspended at; agent_id is the
\* argument of the named-agent call in flight; log lists, in execution order,
\* the stages the task entered, the status writes it issued and the
\* responders it invoked.
NewTask(message_id, text, room) ==
    [pc |-> "spawned", message_id |-> message_id, text |-> text, room |-> room,
     users |-> << >>, agents |-> << >>, is_group |-> FALSE,
     result |-> NoEngineResult, agent_id |-> "None", log |-> << >>]

\* A task that starts over after the failure handler instead of ending.
Finished_retry(task, events) ==
    IF events = << "write_failed" >>
    THEN [task EXCEPT !.pc = "spawned", !.log = @ \o events]
    ELSE [task EXCEPT !.pc = "done", !.text = << >>, !.is_group = FALSE,
                      !.agent_id = "None", !.log = @ \o events]

\* A finished task: what remains is the record of the run (the resolved
\* lists, the verdict and the log).
Finished(task, events) ==
    [task EXCEPT !.pc = "done", !.text = << >>, !.is_group = FALSE,
                 !.agent_id = "None", !.log = @ \o events]

TaskIds == 1..Len(tasks)

FreeIds == {m \in MsgIds : ~msgs[m].exists}

NextId == CHOOSE m \in FreeIds : \A k \in FreeIds : m <= k

Result(outcome, saved, message_id, status) ==
    [outcome |-> outcome, message_saved |-> saved, message_id |-> message_id,
     status |-> status]

\* ------------------------------------------------------------------- ingress
\* process_user_message_with_intervention with user_message_id given.
SubmitExisting(text, room, user_message_id, ok) ==
    /\ calls < MaxCalls
    /\ calls' = calls + 1
    /\ msgs' = update_message_intervention(msgs, room, user_message_id, CheckingInfo, ok)
    /\ tasks' = Append(tasks, NewTask(user_message_id, text, room))
    /\ submits' = [submits EXCEPT ![user_message_id] = @ + 1]
    /\ ingress' = Result("ok", FALSE, user_message_id, "checking")
    /\ UNCHANGED << chats, responses, auditLogs, gateCase,
                    resolverCase, routerCase, historyCase,
                    catalogueCase, engineCase, notifyCase, versionCase >>

\* ... without user_message_id, the room found to be a group room.
SubmitNewGroup(text, room) ==
    /\ calls < MaxCalls
    /\ is_group_chat(room, TRUE)
    /\ FreeIds # {}
    /\ calls' = calls + 1
    /\ msgs' = [msgs EXCEPT ![NextId] =
                   [exists |-> TRUE, room |-> room, text |-> text, sender |-> "u1",
                    json |-> "dict", other |-> "none", intervention |-> CheckingInfo,
                    col |-> "checking"]]
    /\ tasks' = Append(tasks, NewTask(NextId, text, room))
    /\ submits' = [submits EXCEPT ![NextId] = @ + 1]
    /\ ingress' = Result("ok", TRUE, NextId, "checking")
    /\ UNCHANGED << chats, responses, auditLogs, gateCase,
                    resolverCase, routerCase, historyCase,
                    catalogueCase, engineCase, notifyCase, versionCase >>

\* ... without user_message_id, the room not found to be a group room (it is
\* none, or the lookup failed): the message goes to chats with status
\* checking, message_id stays None and no task is created.
SubmitNewChat(text, room, lookupOk) ==
    /\ calls < MaxCalls
    /\ ~is_group_chat(room, lookupOk)
    /\ calls' = calls + 1
    /\ chats' = Append(chats, [room |-> room, text |-> text, sender |-> "u1",
                               intervention |-> CheckingInfo])
    /\ ingress' = Result("ok", TRUE, 0, "checking")
    /\ UNCHANGED << msgs, responses, auditLogs, tasks, submits, gateCase,
                    resolverCase, routerCase, historyCase,
                    catalogueCase, engineCase, notifyCase, versionCase >>

\* An ingress that swallows the failure of the upsert and answers as usual.
SubmitFails_quiet ==
    /\ calls < MaxCalls
    /\ calls' = calls + 1
    /\ ingress' = Result("ok", TRUE, 0, "checking")
    /\ UNCHANGED << msgs, chats, responses, auditLogs, tasks, submits, gateCase,
                    resolverCase, routerCase, historyCase,
                    catalogueCase, engineCase, notifyCase, versionCase >>

\* ... the upsert of the new message raises: handle_user_message answers 500.
SubmitFails ==
    /\ calls < MaxCalls
    /\ calls' = calls + 1
    /\ ingress' = Result("error", FALSE, 0, "none")
    /\ UNCHANGED << msgs, chats, responses, auditLogs, tasks, submits, gateCase,
                    resolverCase, routerCase, historyCase,
                    catalogueCase, engineCase, notifyCase, versionCase >>

\* ------------------------------------------------------------------ pipeline
Logged(task, ev) == \E i \in 1..Len(task.log) : task.log[i] = ev

FailedInfo == Intervention("failed", "false", ReasonOf("failed"), "absent")

\* A failure handler that records the fail-safe verdict instead of failed.
Fail_soft(t, task, ok) ==
    /\ msgs' = update_message_intervention(msgs, task.room, task.message_id,
                    Intervention("not_intervening", "false", ReasonOf("failed"), "absent"),
                    ok)
    /\ tasks' = [tasks EXCEPT ![t] = Finished(task, << "write_failed" >>)]

\* A failure handler that lets the error of a refused write leave the task.
Fail_raises(t, task, ok) ==
    /\ msgs' = update_message_intervention(msgs, task.room, task.message_id,
                                           FailedInfo, ok)
    /\ tasks' = [tasks EXCEPT ![t] =
          IF ok THEN Finished(task, << "write_failed" >>)
          ELSE [Finished(task, << "write_failed" >>) EXCEPT !.pc = "raised"]]

\* The handler of the outermost try of process_intervention_async: a
\* best-effort write of status failed; the task ends.
Fail(t, task, ok) ==
    /\ msgs' = update_message_intervention(msgs, task.room, task.message_id,
                                           FailedInfo, ok)
    /\ tasks' = [tasks EXCEPT ![t] = Finished(task, << "write_failed" >>)]

\* A short-circuit or a false verdict: status not_intervening and, for a room
\* found to be a group room, the audit row; the task ends.
NotIntervening(t, task, logs, reason, writeOk) ==
    LET info == Intervention("not_intervening", "false", reason, "absent")
        ms == update_message_intervention(msgs, task.room, task.message_id, info, writeOk)
    IN  /\ msgs' = ms
        /\ auditLogs' =
             IF task.is_group
             THEN save_intervention_log(logs, ms,
                      AuditRow(task.message_id, "not_intervening", "false", "None", << >>),
                      TRUE)
             ELSE logs
        /\ tasks' = [tasks EXCEPT ![t] = Finished(task, << "write_not_intervening" >>)]

\* From the start of the task up to the mention check: resolver, context and
\* the initial audit row.  list is the room's participants column.
StartCommon(t, list, queryOk, lookupOk) ==
    LET me == tasks[t]
        p == get_chat_room_participants(list, queryOk)
        grp == is_group_chat(me.room, lookupOk)
    IN  [task |-> [me EXCEPT !.users = p.users, !.agents = p.agents,
                             !.is_group = grp, !.log = << "resolver" >>],
         logs |-> IF grp
                  THEN save_intervention_log(auditLogs, msgs,
                           AuditRow(me.message_id, "checking", "null", "None", << >>),
                           TRUE)
                  ELSE auditLogs]

\* fetch_group_chat_history / fetch_chat_history: the room's messages, or the
\* call raises when the history is unavailable.
HistoryOutcomes == {"rows", "raise"}

\* The history fetch for the context raises (after the resolver, before the
\* initial audit row and the mention check): status failed.  In the other
\* Start actions the fetch has returned.
StartFails(t, list, queryOk, history, writeOk) ==
    /\ tasks[t].pc = "spawned"
    /\ history = "raise"
    /\ Fail(t, StartCommon(t, list, queryOk, FALSE).task, writeOk)
    /\ UNCHANGED << chats, responses, auditLogs, calls, ingress, submits, gateCase,
                    resolverCase, routerCase, historyCase,
                    catalogueCase, engineCase, notifyCase, versionCase >>

\* An agent of the room is mentioned.
StartMention(t, list, queryOk, lookupOk, writeOk) ==
    /\ tasks[t].pc = "spawned"
    /\ LET c == StartCommon(t, list, queryOk, lookupOk)
           k == MentionedAgent(c.task.text, c.task.agents)
           task == [c.task EXCEPT !.log = Append(@, "router_hit")]
       IN  /\ k # 0
           /\ NotIntervening(t, task, c.logs,
                             Reason("mention", 0, 0, task.agents[k].username), writeOk)
    /\ UNCHANGED << chats, responses, calls, ingress, submits, gateCase,
                    resolverCase, routerCase, historyCase,
                    catalogueCase, engineCase, notifyCase, versionCase >>

\* No mention, and the gate does not activate.
StartGateCloses(t, list, queryOk, lookupOk, writeOk) ==
    /\ tasks[t].pc = "spawned"
    /\ LET c == StartCommon(t, list, queryOk, lookupOk)
           task == [c.task EXCEPT !.log = @ \o << "router_miss", "gate_closed" >>]
       IN  /\ MentionedAgent(task.text, task.agents) = 0
           /\ ~should_activate_intervention(task.users, task.agents)
           /\ NotIntervening(t, task, c.logs,
                             Reason("gate", Len(task.users), Len(task.agents), << >>),
                             writeOk)
    /\ UNCHANGED << chats, responses, calls, ingress, submits, gateCase,
                    resolverCase, routerCase, historyCase,
                    catalogueCase, engineCase, notifyCase, versionCase >>

\* No mention, the gate activates: the Decision Engine is called and the task
\* suspends in it.
StartDecision(t, list, queryOk, lookupOk) ==
    /\ tasks[t].pc = "spawned"
    /\ LET c == StartCommon(t, list, queryOk, lookupOk)
           task == [c.task EXCEPT !.log = @ \o << "router_miss", "gate_open", "engine" >>]
       IN  /\ MentionedAgent(task.text, task.agents) = 0
           /\ should_activate_intervention(task.users, task.agents)
           /\ auditLogs' = c.logs
           /\ tasks' = [tasks EXCEPT ![t] = [task EXCEPT !.pc = "await_decision"]]
    /\ UNCHANGED << msgs, chats, responses, calls, ingress, submits, gateCase,
                    resolverCase, routerCase, historyCase,
                    catalogueCase, engineCase, notifyCase, versionCase >>

\* The Decision Engine returns should_intervene = False.
DecisionNo(t, raw, writeOk) ==
    /\ tasks[t].pc = "await_decision"
    /\ LET r == check_intervention_and_select_agent(raw)
           task == [tasks[t] EXCEPT !.result = r]
       IN  /\ ~r.should_intervene
           /\ NotIntervening(t, task, auditLogs, r.reason, writeOk)
    /\ UNCHANGED << chats, responses, calls, ingress, submits, gateCase,
                    resolverCase, routerCase, historyCase,
                    catalogueCase, engineCase, notifyCase, versionCase >>

\* A dispatch condition that tests only for "default".
RoutesToNamed_any(selected_agent_id) == selected_agent_id # "default"

\* Whether the selected id routes to the Named Agent Responder.
RoutesToNamed(selected_agent_id) == selected_agent_id \notin {"None", "", "default"}

\* The Decision Engine returns should_intervene = True: status intervening,
\* the audit row, and the call of the responder the selected id routes to.
DecisionYes(t, raw, writeOk) ==
    /\ tasks[t].pc = "await_decision"
    /\ LET me == tasks[t]
           r == check_intervention_and_select_agent(raw)
           selected_agent_id == r.selected_agent_id
           stored == IF selected_agent_id # "default" THEN selected_agent_id ELSE "None"
           info == Intervention("intervening", "true", r.reason, stored)
           ms == update_message_intervention(msgs, me.room, me.message_id, info, writeOk)
           named == RoutesToNamed(selected_agent_id)
       IN  /\ r.should_intervene
           /\ msgs' = ms
           /\ auditLogs' =
                IF me.is_group
                THEN save_intervention_log(auditLogs, ms,
                         AuditRow(me.message_id, "intervening", "true", stored,
                                  IF selected_agent_id # "default"
                                  THEN AgentNameOf(me.agents, selected_agent_id, << >>)
                                  ELSE << >>),
                         TRUE)
                ELSE auditLogs
           /\ tasks' = [tasks EXCEPT ![t] =
                 [me EXCEPT !.result = r,
                            !.pc = IF named THEN "await_agent" ELSE "await_default",
                            !.agent_id = IF named THEN selected_agent_id ELSE "None",
                            !.log = @ \o << "write_intervening",
                                            IF named THEN "named" ELSE "default" >>]]
    /\ UNCHANGED << chats, responses, calls, ingress, submits, gateCase,
                    resolverCase, routerCase, historyCase,
                    catalogueCase, engineCase, notifyCase, versionCase >>

\* The named agent answers and its answer is stored: status completed.  With
\* a payload that is not an object the row has empty content, the audit write
\* fails on the payload and is swallowed, and building agent_response fails
\* on it after the row is stored: the handler of the branch calls the Default
\* Responder.
AgentAnswers(t, out, lookupOk, writeOk) ==
    /\ tasks[t].pc = "await_agent"
    /\ LET me == tasks[t]
           agent_response_data == process_mem0_message_with_history(out)
           agent_name == AgentNameOf(me.agents, me.result.selected_agent_id, NameDefaultAgent)
           grp == is_group_chat(me.room, lookupOk)
           ms == MarkCompleted(msgs, me.room, me.message_id, TRUE, lookupOk, writeOk)
       IN  /\ ~agent_response_data.raised
           /\ responses' = responses \cup
                { ResponseRow(t, Cardinality(AppendsOf(t)) + 1,
                      IF grp THEN "group" ELSE "chats",
                      me.room, agent_name,
                      agent_message_data(agent_response_data).content,
                      agent_message_data(agent_response_data).html,
                      agent_json_data(agent_response_data, me.message_id).user_message_id) }
           /\ msgs' = ms
           /\ auditLogs' =
                IF grp /\ writeOk /\ agent_response_data.dict
                THEN save_intervention_log(auditLogs, ms,
                         AuditRow(me.message_id, "completed", "true",
                                  me.result.selected_agent_id, agent_name), TRUE)
                ELSE auditLogs
           /\ tasks' = [tasks EXCEPT ![t] =
                 IF agent_response_data.dict
                 THEN Finished(me, << "append", "write_completed" >>)
                 ELSE [me EXCEPT !.pc = "await_fallback", !.agent_id = "None",
                                 !.log = @ \o << "append", "write_completed",
                                                 "fallback" >>]]
    /\ UNCHANGED << chats, calls, ingress, submits, gateCase,
                    resolverCase, routerCase, historyCase,
                    catalogueCase, engineCase, notifyCase, versionCase >>

\* A fallback that writes completed as soon as the named agent has failed.
AgentFails_marks(t, out, upsertOk) ==
    /\ tasks[t].pc = "await_agent"
    /\ process_mem0_message_with_history(out).raised \/ ~upsertOk
    /\ msgs' = MarkCompleted(msgs, tasks[t].room, tasks[t].message_id, TRUE, TRUE, TRUE)
    /\ tasks' = [tasks EXCEPT ![t] =
          [@ EXCEPT !.pc = "await_fallback", !.agent_id = "None",
                    !.log = Append(@, "fallback")]]
    /\ UNCHANGED << chats, responses, auditLogs, calls, ingress, submits, gateCase,
                    resolverCase, routerCase, historyCase,
                    catalogueCase, engineCase, notifyCase, versionCase >>

\* The named agent raises, or storing its answer raises: the Default
\* Responder is called as the fallback.
AgentFails(t, out, upsertOk) ==
    /\ tasks[t].pc = "await_agent"
    /\ process_mem0_message_with_history(out).raised \/ ~upsertOk
    /\ tasks' = [tasks EXCEPT ![t] =
          [@ EXCEPT !.pc = "await_fallback", !.agent_id = "None",
                    !.log = Append(@, "fallback")]]
    /\ UNCHANGED << msgs, chats, responses, auditLogs, calls, ingress, submits, gateCase,
                    resolverCase, routerCase, historyCase,
                    catalogueCase, engineCase, notifyCase, versionCase >>

\* The Default Responder answers and the answer is stored: status completed
\* (json_content only).  In the fallback branch the store follows the room,
\* in the default branch upsert_chat_message is called whatever the room is.
DefaultAnswers(t, out, lookupOk, writeOk) ==
    /\ tasks[t].pc \in {"await_fallback", "await_default"}
    /\ LET me == tasks[t]
           default_response == get_default_llm_response(out)
           fallback == me.pc = "await_fallback"
           grp == is_group_chat(me.room, lookupOk)
           ms == MarkCompleted(msgs, me.room, me.message_id, FALSE, lookupOk, writeOk)
       IN  /\ responses' = responses \cup
                { ResponseRow(t, Cardinality(AppendsOf(t)) + 1,
                      IF fallback /\ grp THEN "group" ELSE "chats",
                      me.room, NameAssistant, default_response, "None",
                      me.message_id) }
           /\ msgs' = ms
           /\ auditLogs' =
                IF grp /\ writeOk
                THEN save_intervention_log(auditLogs, ms,
                         AuditRow(me.message_id, "completed", "true",
                                  IF fallback THEN me.result.selected_agent_id
                                  ELSE "default",
                                  NameAssistant), TRUE)
                ELSE auditLogs
           /\ tasks' = [tasks EXCEPT ![t] =
                           Finished(me, << "append", "write_completed" >>)]
    /\ UNCHANGED << chats, calls, ingress, submits, gateCase,
                    resolverCase, routerCase, historyCase,
                    catalogueCase, engineCase, notifyCase, versionCase >>

\* Storing the Default Responder's answer raises: the outermost handler
\* writes status failed.
DefaultStoreFails(t, writeOk) ==
    /\ tasks[t].pc \in {"await_fallback", "await_default"}
    /\ Fail(t, tasks[t], writeOk)
    /\ UNCHANGED << chats, responses, auditLogs, calls, ingress, submits, gateCase,
                    resolverCase, routerCase, historyCase,
                    catalogueCase, engineCase, notifyCase, versionCase >>

\* --------------------------------------------------------------------- Next
Ingress ==
    \/ \E room \in Rooms, text \in Texts, m \in MsgIds, ok \in BOOLEAN :
          SubmitExisting(text, room, m, ok)
    \/ \E room \in Rooms, text \in Texts : SubmitNewGroup(text, room)
    \/ \E room \in Rooms, text \in Texts, ok \in BOOLEAN : SubmitNewChat(text, room, ok)
    \/ SubmitFails

Pipeline ==
    \/ \E t \in TaskIds, list \in Memberships, h \in HistoryOutcomes, q, w \in BOOLEAN :
          StartFails(t, list, q, h, w)
    \/ \E t \in TaskIds, list \in Memberships, q, l, w \in BOOLEAN :
          StartMention(t, list, q, l, w)
    \/ \E t \in TaskIds, list \in Memberships, q, l, w \in BOOLEAN :
          StartGateCloses(t, list, q, l, w)
    \/ \E t \in TaskIds, list \in Memberships, q, l \in BOOLEAN :
          StartDecision(t, list, q, l)
    \/ \E t \in TaskIds, raw \in DecisionOutputs, w \in BOOLEAN : DecisionNo(t, raw, w)
    \/ \E t \in TaskIds, raw \in DecisionOutputs, w \in BOOLEAN : DecisionYes(t, raw, w)
    \/ \E t \in TaskIds, out \in AgentOutputs, l, w \in BOOLEAN :
          AgentAnswers(t, out, l, w)
    \/ \E t \in TaskIds, out \in AgentOutputs, u \in BOOLEAN : AgentFails(t, out, u)
    \/ \E t \in TaskIds, out \in DefaultOutputs, l, w \in BOOLEAN :
          DefaultAnswers(t, out, l, w)
    \/ \E t \in TaskIds, w \in BOOLEAN : DefaultStoreFails(t, w)

Next == Ingress \/ Pipeline

Spec == Init /\ [][Next]_vars

\* ------------------------------------------------------ the gate on its own
\* should_activate_intervention applied to every pair of lists of up to
\* MaxGate members.
MaxGate == 3

GateLists(S) == UNION {[1..n -> S] : n \in 0..MaxGate}

GateInit ==
    /\ InitStore
    /\ gateCase \in {[users |-> u, agents |-> a, applied |-> FALSE, result |-> FALSE] :
                        u \in GateLists({"u1", "u2"}), a \in GateLists({"a1", "a2"})}
    /\ resolverCase = NoResolverCase
    /\ routerCase = NoRouterCase
    /\ historyCase = NoHistoryCase
    /\ catalogueCase = NoCatalogueCase
    /\ engineCase = NoEngineCase
    /\ notifyCase = NoNotifyCase
    /\ versionCase = NoVersionCase

ApplyGate ==
    /\ ~gateCase.applied
    /\ gateCase' = [gateCase EXCEPT
                       !.applied = TRUE,
                       !.result = should_activate_intervention(gateCase.users,
                                                               gateCase.agents)]
    /\ UNCHANGED << msgs, chats, responses, auditLogs, tasks, calls, ingress, submits,
                    resolverCase, routerCase, historyCase,
                    catalogueCase, engineCase, notifyCase, versionCase >>

GateNext == ApplyGate

SpecGate == GateInit /\ [][GateNext]_vars

\* -------------------------------------------------- the resolver on its own
\* get_chat_room_participants applied to every membership list of up to
\* MaxMembers members of the pool, the room query succeeding or failing.
MaxMembers == 3

MemberLists == UNION {[1..n -> MemberPool] : n \in 0..MaxMembers}

ResolverInit ==
    /\ InitStore
    /\ gateCase = NoGateCase
    /\ resolverCase \in {[list |-> l, queryOk |-> q, applied |-> FALSE,
                           result |-> [users |-> << >>, agents |-> << >>]] :
                              l \in MemberLists, q \in BOOLEAN}
    /\ routerCase = NoRouterCase
    /\ historyCase = NoHistoryCase
    /\ catalogueCase = NoCatalogueCase
    /\ engineCase = NoEngineCase
    /\ notifyCase = NoNotifyCase
    /\ versionCase = NoVersionCase

ApplyResolver ==
    /\ ~resolverCase.applied
    /\ resolverCase' = [resolverCase EXCEPT
                           !.applied = TRUE,
                           !.result = get_chat_room_participants(resolverCase.list,
                                                                 resolverCase.queryOk)]
    /\ UNCHANGED << msgs, chats, responses, auditLogs, tasks, calls, ingress, submits,
                    gateCase, routerCase, historyCase,
                    catalogueCase, engineCase, notifyCase, versionCase >>

ResolverNext == ApplyResolver

SpecResolver == ResolverInit /\ [][ResolverNext]_vars

\* ---------------------------------------------------- the router on its own
\* The mention check applied to a text and a list of up to MaxRouterAgents
\* agents: texts without token, with one and with two tokens, a token longer
\* than every name, a token inside a word, a token in capitals; names that
\* differ in case from the tokens, and the empty name.
MaxRouterAgents == 2

RouterTexts ==
    { TextPlain, TextAtBot,
      << "@", " ", "h", "i" >>,
      << "@", "x", " ", "@", "k", "i" >>,
      << "@", "b", "o", "t", "x" >>,
      << "a", "@", "B" >>,
      << "@", "A", "G", "E", "N", "T" >> }

RouterNames == { NameBot, NameKim, NameAgent, << >> }

RouterAgents ==
    UNION {[1..n -> {[username |-> nm] : nm \in RouterNames}] : n \in 0..MaxRouterAgents}

RouterInit ==
    /\ InitStore
    /\ gateCase = NoGateCase
    /\ resolverCase = NoResolverCase
    /\ routerCase \in {[text |-> x, agents |-> a, applied |-> FALSE, result |-> 0] :
                            x \in RouterTexts, a \in RouterAgents}
    /\ historyCase = NoHistoryCase
    /\ catalogueCase = NoCatalogueCase
    /\ engineCase = NoEngineCase
    /\ notifyCase = NoNotifyCase
    /\ versionCase = NoVersionCase

ApplyRouter ==
    /\ ~routerCase.applied
    /\ routerCase' = [routerCase EXCEPT
                         !.applied = TRUE,
                         !.result = MentionedAgent(routerCase.text, routerCase.agents)]
    /\ UNCHANGED << msgs, chats, responses, auditLogs, tasks, calls, ingress, submits,
                    gateCase, resolverCase, historyCase,
                    catalogueCase, engineCase, notifyCase, versionCase >>

RouterNext == ApplyRouter

SpecRouter == RouterInit /\ [][RouterNext]_vars

\* --------------------------------------------- the history format on its own
\* A turn of the history: `kind` says whether the item carries a message
\* ("none": item.messages is empty), one with name, content and role ("full")
\* or one without these attributes ("bare"); the content of a full turn is
\* that of its place in the history.
TurnContents == << "c1", "c2", "c3", "c4", "c5", "c6", "c7", "c8" >>

TurnKinds == {"none", "full", "bare"}

\* getattr(msg, ..., default) for the three attributes.
AttrsOf(item) ==
    IF item.kind = "full"
    THEN [name |-> "kim", content |-> item.content, role |-> "assistant"]
    ELSE [name |-> "Unknown", content |-> "", role |-> "user"]

\* f"[{role}] {name}: {content}"
FormatLine(role, name, content) == << "[", role, "] ", name, ": ", content >>

\* The loop over the recent items: items without a message are skipped.
RECURSIVE FormattedFrom(_, _)
FormattedFrom(recent, i) ==
    IF i > Len(recent) THEN << >>
    ELSE IF recent[i].kind = "none" THEN FormattedFrom(recent, i + 1)
    ELSE LET a == AttrsOf(recent[i])
         IN  << FormatLine(a.role, a.name, a.content) >> \o FormattedFrom(recent, i + 1)

\* "\n".join(formatted)
RECURSIVE JoinLines(_)
JoinLines(formatted) ==
    IF formatted = << >> THEN << >>
    ELSE IF Len(formatted) = 1 THEN formatted[1]
    ELSE formatted[1] \o << "\n" >> \o JoinLines(Tail(formatted))

\* The text returned for an empty history.
NoHistoryText == << "no_history" >>

\* The limit the pipeline and the engine pass (limit=5).
HistoryLimit == 5

\* A format that takes the whole history, whatever the limit.
format_recent_history_all(chat_history, limit) ==
    IF chat_history = << >> THEN NoHistoryText
    ELSE JoinLines(FormattedFrom(chat_history, 1))

format_recent_history(chat_history, limit) ==
    IF chat_history = << >> THEN NoHistoryText
    ELSE LET recent == IF Len(chat_history) > limit
                       THEN SubSeq(chat_history, Len(chat_history) - limit + 1,
                                   Len(chat_history))
                       ELSE chat_history
         IN  JoinLines(FormattedFrom(recent, 1))

\* Every history of up to MaxTurns turns.
MaxTurns == 6

Histories ==
    UNION {{[i \in 1..n |-> [kind |-> f[i], content |-> TurnContents[i]]] :
               f \in [1..n -> TurnKinds]} : n \in 0..MaxTurns}

HistoryInit ==
    /\ InitStore
    /\ gateCase = NoGateCase
    /\ resolverCase = NoResolverCase
    /\ routerCase = NoRouterCase
    /\ historyCase \in {[history |-> h, applied |-> FALSE, result |-> << >>] :
                             h \in Histories}
    /\ catalogueCase = NoCatalogueCase
    /\ engineCase = NoEngineCase
    /\ notifyCase = NoNotifyCase
    /\ versionCase = NoVersionCase

ApplyFormat ==
    /\ ~historyCase.applied
    /\ historyCase' = [historyCase EXCEPT
                          !.applied = TRUE,
                          !.result = format_recent_history(historyCase.history,
                                                           HistoryLimit)]
    /\ UNCHANGED << msgs, chats, responses, auditLogs, tasks, calls, ingress, submits,
                    gateCase, resolverCase, routerCase,
                    catalogueCase, engineCase, notifyCase, versionCase >>

HistoryNext == ApplyFormat

SpecHistory == HistoryInit /\ [][HistoryNext]_vars

\* ------------------------------------------------ the catalogue on its own
\* format_agents_info applied to one agent of every type with every name.
\* A capability is the text of the description; the generic description
\* carries the type it was built from.
Capability(text, type) == [text |-> text, type |-> type]

\* capabilities_map: "email" and "email_writing" share one description.
capabilities_map ==
    [t \in {"translation", "business_term", "email", "email_writing", "default"} |->
        Capability(IF t = "email_writing" THEN "email" ELSE t, "")]

\* ASCII keywords of the two functions (the Korean ones are substrings the
\* names of the model never contain).
KwEmail == << "e", "m", "a", "i", "l" >>
KwMail == << "m", "a", "i", "l" >>
KwTranslation == << "t", "r", "a", "n", "s", "l", "a", "t", "i", "o", "n" >>
KwTranslate == << "t", "r", "a", "n", "s", "l", "a", "t", "e" >>
KwBusiness == << "b", "u", "s", "i", "n", "e", "s", "s" >>
KwTerm == << "t", "e", "r", "m" >>

HasAny(username, keywords) == \E k \in keywords : Contains(LowerStr(username), k)

\* A description that looks at the name before it looks at the table.
get_agent_capabilities_byname(agent_type, username) ==
    IF HasAny(username, {KwTranslation, KwTranslate})
    THEN Capability("translation", "")
    ELSE IF HasAny(username, {KwBusiness, KwTerm})
    THEN Capability("business_term", "")
    ELSE IF HasAny(username, {KwEmail, KwMail})
    THEN Capability("email", "")
    ELSE IF agent_type \in DOMAIN capabilities_map
    THEN capabilities_map[agent_type]
    ELSE Capability("generic", agent_type)

\* get_agent_capabilities: the table first; the name only for a type the
\* table does not hold; else the generic description naming the type.
get_agent_capabilities(agent_type, username) ==
    IF agent_type \in DOMAIN capabilities_map
    THEN capabilities_map[agent_type]
    ELSE IF HasAny(username, {KwTranslation, KwTranslate})
    THEN Capability("translation", "")
    ELSE IF HasAny(username, {KwBusiness, KwTerm})
    THEN Capability("business_term", "")
    ELSE IF HasAny(username, {KwEmail, KwMail})
    THEN Capability("email", "")
    ELSE Capability("generic", agent_type)

\* The entry of format_agents_info for one agent: agent.get("agent_type",
\* "agent"), completed from the name when it is "agent" or falsy.
format_agents_info(agent_type, username) ==
    LET given == IF agent_type = "absent" THEN "agent" ELSE agent_type
        generic == given = "agent" \/ given \in {"", "None"}
        shown == IF HasAny(username, {KwEmail})
                 THEN IF generic THEN "email" ELSE given
                 ELSE IF HasAny(username, {KwTranslation})
                 THEN IF generic THEN "translation" ELSE given
                 ELSE IF HasAny(username, {KwBusiness})
                 THEN IF generic THEN "business_term" ELSE given
                 ELSE given
    IN  [agent_type |-> shown, capabilities |-> get_agent_capabilities(shown, username)]

\* "absent": the agent has no agent_type key; "None": the key holds null.
CatalogueTypes ==
    {"absent", "agent", "", "None", "translation", "business_term", "email",
     "email_writing", "default", "custom"}

CatalogueNames ==
    { << >>, NameBot, KwEmail, KwMail, KwTranslate, KwTerm,
      << "B", "u", "s", "i", "n", "e", "s", "s" >>,
      KwTranslation \o << " " >> \o KwEmail }

CatalogueInit ==
    /\ InitStore
    /\ gateCase = NoGateCase
    /\ resolverCase = NoResolverCase
    /\ routerCase = NoRouterCase
    /\ historyCase = NoHistoryCase
    /\ catalogueCase \in {[NoCatalogueCase EXCEPT !.agent_type = t, !.username = n] :
                             t \in CatalogueTypes, n \in CatalogueNames}
    /\ engineCase = NoEngineCase
    /\ notifyCase = NoNotifyCase
    /\ versionCase = NoVersionCase

ApplyCatalogue ==
    /\ ~catalogueCase.applied
    /\ catalogueCase' = [catalogueCase EXCEPT
                            !.applied = TRUE,
                            !.result = format_agents_info(catalogueCase.agent_type,
                                                          catalogueCase.username)]
    /\ UNCHANGED << msgs, chats, responses, auditLogs, tasks, calls, ingress, submits,
                    gateCase, resolverCase, routerCase, historyCase,
                    engineCase, notifyCase, versionCase >>

CatalogueNext == ApplyCatalogue

SpecCatalogue == CatalogueInit /\ [][CatalogueNext]_vars


\* --------------------------------------------------- the engine on its own
\* check_intervention_and_select_agent applied to every inference outcome:
\* a raised call, text and non-object JSON in every wrapping, and every
\* object over the values of its three keys.  "str_false" is the JSON string
\* "false".
EngineInputs ==
    { LlmDecision("raise", "none", "absent", "absent", "absent") }
    \cup { LlmDecision(sh, f, "absent", "absent", "absent") :
              sh \in {"text", "nonobject"}, f \in {"none", "json", "plain", "prefixed"} }
    \cup { LlmDecision("object", f[1], f[2], f[3], f[4]) :
              f \in {"none", "json", "plain", "prefixed"}
                    \X {"absent", "null", "true", "false", "str_false"}
                    \X {"absent", "given"}
                    \X {"absent", "a1", "default"} }

EngineInit ==
    /\ InitStore
    /\ gateCase = NoGateCase
    /\ resolverCase = NoResolverCase
    /\ routerCase = NoRouterCase
    /\ historyCase = NoHistoryCase
    /\ catalogueCase = NoCatalogueCase
    /\ engineCase \in {[NoEngineCase EXCEPT !.raw = raw] : raw \in EngineInputs}
    /\ notifyCase = NoNotifyCase
    /\ versionCase = NoVersionCase

ApplyEngine ==
    /\ ~engineCase.applied
    /\ engineCase' = [engineCase EXCEPT
                         !.applied = TRUE,
                         !.result = check_intervention_and_select_agent(engineCase.raw)]
    /\ UNCHANGED << msgs, chats, responses, auditLogs, tasks, calls, ingress, submits,
                    gateCase, resolverCase, routerCase, historyCase,
                    catalogueCase, notifyCase, versionCase >>

EngineNext == ApplyEngine

SpecEngine == EngineInit /\ [][EngineNext]_vars

\* ------------------------------------------- outbound notification on its own
\* trigger_phone_call / send_sms: the request, then the status update; any
\* exception of the two goes to the handler, which writes FAILED outside any
\* handler of its own.  onSuccess is RINGING or COMPLETED.
send_request(onSuccess, requestOk, updateOk) ==
    IF requestOk
    THEN IF updateOk[1]
         THEN [queue |-> onSuccess, raised |-> FALSE]
         ELSE IF updateOk[2]
         THEN [queue |-> "FAILED", raised |-> FALSE]
         ELSE [queue |-> "PENDING", raised |-> TRUE]
    ELSE IF updateOk[1]
         THEN [queue |-> "FAILED", raised |-> FALSE]
         ELSE [queue |-> "PENDING", raised |-> TRUE]

\* str.upper() and str.lower() on the values of the model.
UpperStatus(st) == IF st = "todo" THEN "TODO" ELSE st

LowerContact(c) == IF c = "SMS" THEN "sms" ELSE c

\* process_outbound_notify.
process_outbound_notify(c) ==
    LET prefer_contact == LowerContact(IF c.prefer_contact \in {"null", ""} THEN "none"
                                       ELSE c.prefer_contact)
        channel == IF prefer_contact = "sms" THEN "sms" ELSE "phone"
        skip == [channel |-> "none", queue |-> "none", raised |-> FALSE]
    IN  IF UpperStatus(c.workitem_status) \notin {"IN_PROGRESS", "TODO", "NEW"} THEN skip
        ELSE IF c.user # "row" THEN skip
        ELSE IF prefer_contact \notin {"phone", "sms", "both"} THEN skip
        ELSE IF ~c.phone_number THEN skip
        ELSE IF ~c.insertOk THEN skip
        ELSE LET r == send_request(IF channel = "phone" THEN "RINGING" ELSE "COMPLETED",
                                   c.requestOk, c.updateOk)
             IN  [channel |-> channel, queue |-> r.queue, raised |-> r.raised]

\* user: fetch_user_info raises, finds nothing or returns the row.
NotifyInit ==
    /\ InitStore
    /\ gateCase = NoGateCase
    /\ resolverCase = NoResolverCase
    /\ routerCase = NoRouterCase
    /\ historyCase = NoHistoryCase
    /\ catalogueCase = NoCatalogueCase
    /\ engineCase = NoEngineCase
    /\ notifyCase \in
         {[NoNotifyCase EXCEPT !.workitem_status = f[1], !.user = f[2],
                               !.prefer_contact = f[3], !.phone_number = f[4],
                               !.insertOk = f[5], !.requestOk = f[6],
                               !.updateOk = << f[7], f[8] >>] :
             f \in {"IN_PROGRESS", "todo", "DONE"} \X {"raise", "none", "row"}
                   \X {"null", "none", "phone", "SMS", "both"} \X BOOLEAN
                   \X BOOLEAN \X BOOLEAN \X BOOLEAN \X BOOLEAN}
    /\ versionCase = NoVersionCase

ApplyNotify ==
    /\ ~notifyCase.applied
    /\ LET r == process_outbound_notify(notifyCase)
       IN  notifyCase' = [notifyCase EXCEPT !.applied = TRUE, !.channel = r.channel,
                                            !.queue = r.queue, !.raised = r.raised]
    /\ UNCHANGED << msgs, chats, responses, auditLogs, tasks, calls, ingress, submits,
                    gateCase, resolverCase, routerCase, historyCase,
                    catalogueCase, engineCase, versionCase >>

NotifyNext == ApplyNotify

SpecNotify == NotifyInit /\ [][NotifyNext]_vars

\* ------------------------------------- process-definition versions on their own
\* _version_as_float on the versions of the model: a version that is no
\* number counts as 0.0.
version_as_float(v) == IF v = "2" THEN 2 ELSE IF v = "10" THEN 10 ELSE 0

\* The place of a version in the order of strings.
version_as_string(v) == IF v = "10" THEN 1 ELSE IF v = "2" THEN 2 ELSE 3

\* A choice of the latest row by the order of the version strings.
fetch_latest_process_definition_version_by_tag_str(rows) ==
    rows[CHOOSE i \in 1..Len(rows) :
            /\ \A j \in 1..Len(rows) :
                  version_as_string(rows[j]) <= version_as_string(rows[i])
            /\ \A j \in 1..(i - 1) :
                  version_as_string(rows[j]) < version_as_string(rows[i])]

\* fetch_latest_process_definition_version_by_tag, for a list that is not
\* empty: the first row after the stable sort by the number, largest first.
fetch_latest_process_definition_version_by_tag(rows) ==
    rows[CHOOSE i \in 1..Len(rows) :
            /\ \A j \in 1..Len(rows) :
                  version_as_float(rows[j]) <= version_as_float(rows[i])
            /\ \A j \in 1..(i - 1) :
                  version_as_float(rows[j]) < version_as_float(rows[i])]

\* str.lower() on the tags of the model.
LowerTag(tag) == IF tag = "Minor" THEN "minor" ELSE IF tag = "absent" THEN "" ELSE tag

Taken(from, version) == [from |-> from, version |-> version]

\* fetch_process_definition_by_version_ts_style.  The proc_def query and the
\* queries of the version lists stand outside every handler.
fetch_process_definition_by_version_ts_style(c) ==
    LET tag == LowerTag(c.version_tag)
        prod_version == c.proc_def = "prod"
    IN  IF c.def_id = "" THEN Taken("none", "")
        ELSE IF c.proc_def = "raise" THEN Taken("raised", "")
        ELSE IF c.arcv_id /\ c.fetcher /\ c.arcvRows = "row"
        THEN Taken("arcv", "")
        ELSE IF tag \in {"major", "minor"} /\ c.version /\ c.exactRows = "row"
        THEN Taken("exact", "")
        ELSE IF prod_version /\ c.fetcher /\ c.prodArcvRows = "row"
        THEN Taken("prod_arcv", "")
        ELSE IF prod_version /\ c.prodVersionRows = "row"
        THEN Taken("prod_version", "")
        ELSE IF ~c.listsOk THEN Taken("raised", "")
        ELSE IF c.majorRows # << >>
        THEN Taken("major", fetch_latest_process_definition_version_by_tag(c.majorRows))
        ELSE IF c.minorRows # << >>
        THEN Taken("minor", fetch_latest_process_definition_version_by_tag(c.minorRows))
        ELSE Taken("proc_def", "")

QueryOutcomes == {"raise", "empty", "row"}

VersionLists == { << >>, << "2" >>, << "2", "10" >>, << "10", "2" >>, << "x", "2" >> }

VersionInit ==
    /\ InitStore
    /\ gateCase = NoGateCase
    /\ resolverCase = NoResolverCase
    /\ routerCase = NoRouterCase
    /\ historyCase = NoHistoryCase
    /\ catalogueCase = NoCatalogueCase
    /\ engineCase = NoEngineCase
    /\ notifyCase = NoNotifyCase
    /\ versionCase \in
         {[NoVersionCase EXCEPT !.def_id = "", !.arcv_id = a, !.fetcher = a,
                                !.arcvRows = "row", !.proc_def = "prod"] :
             a \in BOOLEAN}
         \cup
         {[NoVersionCase EXCEPT !.def_id = "p", !.arcv_id = f[1], !.fetcher = f[2],
                                !.arcvRows = f[3], !.version_tag = f[4],
                                !.version = f[5], !.exactRows = f[6],
                                !.proc_def = f[7], !.prodArcvRows = f[8],
                                !.prodVersionRows = f[9], !.majorRows = f[10],
                                !.minorRows = f[11], !.listsOk = f[12]] :
             f \in BOOLEAN \X BOOLEAN \X QueryOutcomes
                   \X {"absent", "major", "Minor", "patch"} \X BOOLEAN \X QueryOutcomes
                   \X {"raise", "none", "plain", "prod"}
                   \X QueryOutcomes \X QueryOutcomes
                   \X VersionLists \X {<< >>, << "x", "2" >>} \X BOOLEAN}

ApplyVersion ==
    /\ ~versionCase.applied
    /\ versionCase' = [versionCase EXCEPT
                          !.applied = TRUE,
                          !.result = fetch_process_definition_by_version_ts_style(versionCase)]
    /\ UNCHANGED << msgs, chats, responses, auditLogs, tasks, calls, ingress, submits,
                    gateCase, resolverCase, routerCase, historyCase,
                    catalogueCase, engineCase, notifyCase >>

VersionNext == ApplyVersion

SpecVersion == VersionInit /\ [][VersionNext]_vars

\* =================================================================== claims

\* C5: the Activation Gate is true exactly when (humans >= 1 and agents >= 2)
\* or (humans >= 2 and agents >= 1); it is false for one human with one agent
\* and whenever either count is 0.
C5_GateTable ==
    gateCase.applied =>
        LET humans == Len(gateCase.users)
            agents == Len(gateCase.agents)
        IN  /\ gateCase.result <=>
                  ((humans >= 1 /\ agents >= 2) \/ (humans >= 2 /\ agents >= 1))
            /\ (humans = 1 /\ agents = 1) => ~gateCase.result
            /\ (humans = 0 \/ agents = 0) => ~gateCase.result

\* One human with two agents: the gate has answered true.
C5_Witness ==
    /\ gateCase.applied
    /\ Len(gateCase.users) = 1 /\ Len(gateCase.agents) = 2
    /\ gateCase.result

StatusOf(m) == msgs[m].intervention.status

AllDone == \A t \in TaskIds : tasks[t].pc = "done"

\* C1 (as stated): once a message's status is not_intervening, completed or
\* failed, no step moves it to checking or intervening, a later submission
\* of the same message included.
C1_Original ==
    [][\A m \in MsgIds :
          StatusOf(m) \in Terminal =>
              msgs'[m].intervention.status \notin {"checking", "intervening"}]_vars

\* C1 (amended): for a message id that has been submitted once, a terminal
\* status is never followed by checking or intervening.
C1_SubmittedOnce ==
    [][\A m \in MsgIds :
          (submits'[m] <= 1 /\ StatusOf(m) \in Terminal) =>
              msgs'[m].intervention.status \notin {"checking", "intervening"}]_vars

\* A message submitted once has reached a terminal status, its pipeline over,
\* and the system has made a further call.
C1_Witness ==
    /\ submits[1] = 1 /\ StatusOf(1) \in Terminal
    /\ \E t \in TaskIds : tasks[t].message_id = 1 /\ tasks[t].pc = "done"
    /\ calls = MaxCalls

Edges ==
    { << "checking", "not_intervening" >>, << "checking", "intervening" >>,
      << "intervening", "completed" >>, << "checking", "failed" >>,
      << "intervening", "failed" >> }

C3_Original ==
    AllDone =>
        /\ \A m \in MsgIds : StatusOf(m) \notin {"checking", "intervening"}
        /\ \A i \in 1..Len(chats) :
              chats[i].intervention.status \notin {"checking", "intervening"}

\* The message a task works on, as stored before and after a step.
Stored(t) == msgs[tasks[t].message_id].intervention

StoredNext(t) == msgs'[tasks[t].message_id].intervention

\* The step takes task t away from the point pc.
Leaves(t, pc) == tasks[t].pc = pc /\ tasks'[t].pc # pc

\* The step leaves the stored record of t's message as it was.
Untouched(t) == msgs'[tasks[t].message_id] = msgs[tasks[t].message_id]

\* In a group room, a status write that did not reach the stored message: the
\* store refused it, the room lookup failed, or there is no such row.
WriteLost(t) == Untouched(t) /\ ChatType(tasks[t].room) = "group"

Responders == {"named", "default", "fallback"}

NoneOf(task, events) == \A i \in 1..Len(task.log) : task.log[i] \notin events

\* C4 (as stated; a status write lost in a group room is not held against
\* it): a run whose text mentions a resolved agent ends in its first
\* step with status not_intervening and a mention reason, and has entered
\* neither the gate nor the engine nor a responder.
C4_Original ==
    [][\A t \in TaskIds :
          (Leaves(t, "spawned") /\ MentionedAgent(tasks[t].text, tasks'[t].agents) # 0) =>
              /\ tasks'[t].pc = "done"
              /\ NoneOf(tasks'[t], Responders \cup {"gate_open", "gate_closed", "engine"})
              /\ \/ WriteLost(t)
                 \/ /\ StoredNext(t).status = "not_intervening"
                    /\ StoredNext(t).reason.kind = "mention"]_vars

\* C6 (as stated; a status write lost in a group room is not held against
\* it): a run with no mention and a gate that does not activate ends
\* in its first step with status not_intervening and a reason carrying both
\* counts, and has entered neither the engine nor a responder.
C6_Original ==
    [][\A t \in TaskIds :
          (/\ Leaves(t, "spawned")
           /\ MentionedAgent(tasks[t].text, tasks'[t].agents) = 0
           /\ ~((Len(tasks'[t].users) >= 1 /\ Len(tasks'[t].agents) >= 2)
                  \/ (Len(tasks'[t].users) >= 2 /\ Len(tasks'[t].agents) >= 1))) =>
              /\ tasks'[t].pc = "done"
              /\ NoneOf(tasks'[t], Responders \cup {"engine"})
              /\ \/ WriteLost(t)
                 \/ /\ StoredNext(t).status = "not_intervening"
                    /\ StoredNext(t).reason.kind = "gate"
                    /\ StoredNext(t).reason.users = Len(tasks'[t].users)
                    /\ StoredNext(t).reason.agents = Len(tasks'[t].agents)]_vars

\* The inference output is not a decision object: not JSON at all, JSON
\* behind prose, or a JSON value that is not an object.
Undecodable(raw) == raw.shape \in {"text", "nonobject"} \/ raw.fence = "prefixed"

\* A step in which t's awaited engine call returns its answer to raw.
EngineReturns(t, raw) ==
    /\ Leaves(t, "await_decision")
    /\ tasks'[t].result = check_intervention_and_select_agent(raw)

\* C7 (as stated; a status write lost in a group room is not held against
\* it): the engine never raises; on output that cannot be decoded
\* it returns should_intervene = false with a decode-failure reason; the run
\* then ends with status not_intervening, never failed, and invokes no
\* responder.
C7_Original ==
    [][\A t \in TaskIds :
         /\ Leaves(t, "await_decision") =>
               \E raw \in DecisionOutputs : EngineReturns(t, raw)
         /\ \A raw \in DecisionOutputs :
               (EngineReturns(t, raw) /\ Undecodable(raw)) =>
                   /\ ~tasks'[t].result.should_intervene
                   /\ tasks'[t].result.reason.kind = "decode_failure"
                   /\ tasks'[t].pc = "done"
                   /\ NoneOf(tasks'[t], Responders \cup {"write_failed"})
                   /\ WriteLost(t) \/ StoredNext(t).status = "not_intervening"]_vars

\* C8 (as stated; a status write lost in a group room is not held against
\* it): when the engine returns should_intervene = false the run
\* ends with status not_intervening carrying the engine's reason, and no
\* responder is invoked.
C8_Original ==
    [][\A t \in TaskIds :
          (Leaves(t, "await_decision") /\ ~tasks'[t].result.should_intervene) =>
              /\ tasks'[t].pc = "done"
              /\ NoneOf(tasks'[t], Responders)
              /\ \/ WriteLost(t)
                 \/ /\ StoredNext(t).status = "not_intervening"
                    /\ StoredNext(t).reason = tasks'[t].result.reason]_vars

\* The first responder a task invoked: "named", "default", or "none".
FirstResponder(task) ==
    IF Logged(task, "named") THEN "named"
    ELSE IF \E i \in 1..Len(task.log) :
               task.log[i] = "default" /\ \A j \in 1..(i - 1) : task.log[j] # "fallback"
    THEN "default"
    ELSE "none"

NewResponses == responses' \ responses

\* A step in which t's named agent call returns and the run ends there.
NamedSucceeds(t) == Leaves(t, "await_agent") /\ tasks'[t].pc = "done"

\* C10 (as stated; a status write lost in a group room is not held against
\* it): when the Named Agent Responder succeeds the status
\* becomes completed and the run's response carries the display name that
\* the resolved agent list gives for the selected id.
C10_Original ==
    [][\A t \in TaskIds :
          NamedSucceeds(t) =>
              /\ WriteLost(t) \/ StoredNext(t).status = "completed"
              /\ \E r \in NewResponses :
                    /\ NewResponses = {r}
                    /\ r.task = t
                    /\ \A i \in 1..Len(tasks[t].agents) :
                          tasks[t].agents[i].id = tasks[t].result.selected_agent_id
                             => r.name = tasks[t].agents[i].username]_vars

\* A step in which t's named agent call fails (the run goes on).
NamedFails(t) == Leaves(t, "await_agent") /\ tasks'[t].pc # "done"

\* A step in which the fallback's answer is stored.
FallbackAnswers(t) == Leaves(t, "await_fallback") /\ Logged(tasks'[t], "append")

\* C11 (as stated; a status write lost in a group room is not held against
\* it): when the call of the Named Agent Responder fails, the Default
\* Responder is invoked; when its answer is stored, the response is
\* attributed to the Default Responder, the status is completed, and the run
\* never wrote failed.
C11_Original ==
    [][\A t \in TaskIds :
         /\ NamedFails(t) =>
               /\ tasks'[t].pc = "await_fallback"
               /\ tasks'[t].log = Append(tasks[t].log, "fallback")
         /\ FallbackAnswers(t) =>
               /\ \E r \in NewResponses :
                     NewResponses = {r} /\ r.task = t /\ r.name = NameAssistant
               /\ ~Logged(tasks'[t], "write_failed")
               /\ WriteLost(t) \/ StoredNext(t).status = "completed"]_vars

\* The run of t is over and ended at completed: it issued the completed
\* write, or it is the only run of its message and completed is stored.
EndedCompleted(t) ==
    /\ tasks[t].pc = "done"
    /\ \/ Logged(tasks[t], "write_completed")
       \/ /\ submits[tasks[t].message_id] = 1
          /\ Stored(t).status = "completed"

\* C12: every run that ends with status completed has appended exactly one
\* response message, never zero and never two, the runs that took the
\* fallback included.
C12_OneResponse ==
    \A t \in TaskIds :
        EndedCompleted(t) =>
            /\ Cardinality(AppendsOf(t)) = 1
            /\ submits[tasks[t].message_id] = 1 =>
                  Cardinality({r \in responses :
                                  r.user_message_id = tasks[t].message_id}) = 1

\* A run whose named agent failed took the fallback and ended at completed,
\* with the Default Responder's answer stored in the group store.
C12_Witness ==
    \E t \in TaskIds :
        /\ EndedCompleted(t)
        /\ Logged(tasks[t], "fallback")
        /\ Stored(t).status = "completed"
        /\ \E r \in AppendsOf(t) : r.name = NameAssistant /\ r.store = "group"

\* C13: every stored response carries, as user_message_id, the id of the
\* message its run was started for, whatever user_message_id the responder's
\* payload brought.
C13_BackReference ==
    \A r \in responses :
        /\ r.task \in TaskIds
        /\ r.user_message_id = tasks[r.task].message_id

\* Both messages have a response: one of a named agent whose payload brought
\* a user_message_id of its own (the payload without content), one of the
\* Default Responder.
C13_Witness ==
    \E r, q \in responses :
        /\ r.name = NameBot /\ r.content = "empty" /\ r.user_message_id = 1
        /\ q.name = NameAssistant /\ q.user_message_id = 2

\* Event ev stands in the log before position i.
Before(log, ev, i) == \E j \in 1..(i - 1) : log[j] = ev

Awaits == {"await_decision", "await_agent", "await_default", "await_fallback"}

\* C15: no error leaves process_intervention_async.  Every step of a run takes
\* it to an await or to its end and leaves the result of the ingress call as
\* it was; a run that met an unhandled error ends with one write of status
\* failed whose reason is the error message; when that write is refused the
\* stored record stays as it was and the run ends all the same.
C15_Contained ==
    [][\A t \in TaskIds :
          tasks'[t].pc # tasks[t].pc =>
              /\ tasks'[t].pc \in Awaits \cup {"done"}
              /\ ingress' = ingress
              /\ Logged(tasks'[t], "write_failed") =>
                    /\ tasks'[t].pc = "done"
                    /\ tasks'[t].log[Len(tasks'[t].log)] = "write_failed"
                    /\ Untouched(t) \/ StoredNext(t) = FailedInfo]_vars

\* Two runs met an unhandled error and ended: the failed write of one is
\* stored, that of the other was refused; the last ingress call succeeded.
C15_Witness ==
    \E t, u \in TaskIds :
        /\ tasks[t].pc = "done" /\ Logged(tasks[t], "write_failed")
        /\ tasks[u].pc = "done" /\ Logged(tasks[u], "write_failed")
        /\ tasks[t].room = "G" /\ tasks[u].room = "G"
        /\ tasks[t].message_id # tasks[u].message_id
        /\ Stored(t) = FailedInfo
        /\ msgs[tasks[u].message_id].exists /\ Stored(u).status = "checking"
        /\ ingress.outcome = "ok"

\* C16 (as stated): a failing identity lookup, history fetch or topology
\* lookup never ends the run and never leads to status failed: the first
\* step of a run, which makes the three lookups, reaches the mention check
\* and writes no failed, and a member whose identity lookup failed is not
\* among the agents.
C16_Original ==
    [][\A t \in TaskIds :
          Leaves(t, "spawned") =>
              /\ ~Logged(tasks'[t], "write_failed")
              /\ Logged(tasks'[t], "router_hit") \/ Logged(tasks'[t], "router_miss")
              /\ \A i \in 1..Len(tasks'[t].agents) :
                    tasks'[t].agents[i].id # mH2.id]_vars

\* The step is an ingress call.
IngressCall == calls' = calls + 1

\* C17: an ingress call that succeeds returns the message id and status
\* checking at once: during the call no run takes a step, a run it creates
\* has executed nothing when the call returns, and nothing is stored for a
\* response or in the audit log; and no step of a run, failing or not,
\* changes what the call returned.
C17_Immediate ==
    [][/\ IngressCall =>
            /\ ingress'.outcome = "ok" => ingress'.status = "checking"
            /\ \A t \in TaskIds : tasks'[t] = tasks[t]
            /\ Len(tasks') \in {Len(tasks), Len(tasks) + 1}
            /\ Len(tasks') = Len(tasks) + 1 =>
                  /\ ingress'.outcome = "ok"
                  /\ tasks'[Len(tasks')].pc = "spawned"
                  /\ tasks'[Len(tasks')].log = << >>
                  /\ tasks'[Len(tasks')].message_id = ingress'.message_id
            /\ responses' = responses /\ auditLogs' = auditLogs
       /\ ~IngressCall => ingress' = ingress]_vars

\* A call returned checking for a message; a run for it has since failed and
\* the result of the call is as it was, while another run has not started.
C17_Witness ==
    \E t, u \in TaskIds :
        /\ tasks[t].pc = "done" /\ Logged(tasks[t], "write_failed")
        /\ ingress = Result("ok", FALSE, tasks[t].message_id, "checking")
        /\ tasks[u].pc = "spawned" /\ tasks[u].log = << >>

\* C18 (as stated): every ingress call that succeeds spawns exactly one run,
\* for a new group message, a new point-to-point message and a message
\* submitted with its id alike.
C18_Original ==
    [][(IngressCall /\ ingress'.outcome = "ok") =>
           /\ Len(tasks') = Len(tasks) + 1
           /\ tasks'[Len(tasks')].pc = "spawned"]_vars

\* C19 (as stated): in every reachable state at most one run is active for
\* a message id.
C19_Original ==
    \A t, u \in TaskIds :
        (t # u /\ tasks[t].pc # "done" /\ tasks[u].pc # "done") =>
            tasks[t].message_id # tasks[u].message_id

C21_IngressFailure ==
    [][IngressCall =>
          /\ ingress'.outcome \in {"ok", "error"}
          /\ ingress'.outcome = "error" =>
                /\ tasks' = tasks /\ submits' = submits
                /\ msgs' = msgs /\ chats' = chats
                /\ ingress' = Result("error", FALSE, 0, "none")
          /\ (tasks' = tasks /\ msgs' = msgs /\ chats' = chats) =>
                ingress'.outcome = "error"]_vars

\* The first call started a run, which has ended; the second call failed on
\* storing its message and started none.
C21_Witness ==
    /\ calls = 2
    /\ ingress.outcome = "error"
    /\ Len(tasks) = 1
    /\ tasks[1].pc = "done"
    /\ chats = << >>

\* The audit row of message m, 0 if there is none.
AuditOf(m) == FirstRowFor(auditLogs, m)

\* C22: no audit record is created or updated for a message of a room that
\* is not a group room: a step of a run of such a room leaves the audit store
\* as it is, on every path, and every change of the audit store is made by a
\* run of a group room.
C22_GroupOnly ==
    [][/\ \A t \in TaskIds :
             (tasks'[t] # tasks[t] /\ ChatType(tasks[t].room) # "group") =>
                 auditLogs' = auditLogs
       /\ auditLogs' # auditLogs =>
             \E t \in TaskIds :
                 tasks'[t] # tasks[t] /\ ChatType(tasks[t].room) = "group"]_vars

\* A run of a one-to-one room went through intervening and completed and its
\* message has no audit row; a run of a group room did the same and its
\* message has one, at completed.
C22_Witness ==
    \E t, u \in TaskIds :
        /\ tasks[t].room = "P" /\ tasks[t].pc = "done"
        /\ Logged(tasks[t], "write_intervening") /\ Logged(tasks[t], "write_completed")
        /\ AuditOf(tasks[t].message_id) = 0
        /\ tasks[u].room = "G" /\ tasks[u].pc = "done"
        /\ Logged(tasks[u], "write_completed")
        /\ AuditOf(tasks[u].message_id) # 0
        /\ auditLogs[AuditOf(tasks[u].message_id)].status = "completed"

\* The audit store holds at most one row per message id, and a step keeps
\* the rows it finds in their places under their message ids.
OneRowEach ==
    /\ \A i, j \in 1..Len(auditLogs') :
          auditLogs'[i].message_id = auditLogs'[j].message_id => i = j
    /\ Len(auditLogs') \in {Len(auditLogs), Len(auditLogs) + 1}
    /\ \A i \in 1..Len(auditLogs) :
          auditLogs'[i].message_id = auditLogs[i].message_id

\* The step adds a row to the audit store, and it is a step of task t.
CreatesRow(t) == Len(auditLogs') > Len(auditLogs) /\ tasks'[t] # tasks[t]

\* C23 (as stated): the audit store holds at most one record per message
\* id, which every later write updates in place, with several runs for one
\* message as well; the record is created by the checking write, that is,
\* in the first step of a run, whose first audit write is the checking
\* write.
C23_Original ==
    [][/\ OneRowEach
       /\ \A t \in TaskIds : CreatesRow(t) => tasks[t].pc = "spawned"]_vars

\* C23 (amended): the audit store holds at most one record per message id,
\* which every later write updates in place, with several runs for one
\* message as well; the record is created by the first audit write the
\* store accepts for the message: the checking write of the first step of a
\* run or, when that write was not made or not accepted (the room not found
\* to be a group room, or the message not yet stored, at the start of the
\* run), a later write, with the status that write carries
\* (not_intervening, intervening or completed).
C23_OneRecord ==
    [][/\ OneRowEach
       /\ \A t \in TaskIds :
             CreatesRow(t) =>
                \/ tasks[t].pc = "spawned"
                \/ /\ auditLogs'[Len(auditLogs')].message_id = tasks[t].message_id
                   /\ auditLogs'[Len(auditLogs')].status \in
                         {"not_intervening", "intervening", "completed"}
                   /\ Logged(tasks'[t], "write_" \o auditLogs'[Len(auditLogs')].status)]_vars

\* Two runs for message 1 have ended and its one audit row stands at
\* completed.
C23_Witness ==
    /\ Len(auditLogs) = 1
    /\ auditLogs[1].message_id = 1
    /\ auditLogs[1].status = "completed"
    /\ submits[1] = 2
    /\ AllDone

\* C24 (as stated): in a group room every status a run stores on the message
\* (checking aside, which the ingress stores) comes with an audit write of
\* the same status, so that the audit row of the message shows the status
\* the message shows, the last step of the run included.  Left aside are the
\* first step of a run and the runs that did not find the group room at
\* their start.
C24_Original ==
    [][\A t \in TaskIds :
          (/\ tasks'[t] # tasks[t]
           /\ ChatType(tasks[t].room) = "group"
           /\ tasks[t].pc # "spawned" /\ tasks[t].is_group
           /\ ~Untouched(t)) =>
              LET i == FirstRowFor(auditLogs', tasks[t].message_id)
              IN  i # 0 /\ auditLogs'[i].status = StoredNext(t).status]_vars

\* The positions of the log of a task at which one of the events stands.
Positions(task, events) == {i \in 1..Len(task.log) : task.log[i] \in events}

\* C25: within a run the stages come in the order resolver, mention router,
\* gate, engine, dispatch: the resolver is the first event and the router
\* the second; the gate is entered only after a router miss and the engine
\* only after the gate opened (one human and two agents, or two humans and
\* one agent, at least); the
\* engine is entered at most once; a responder is entered only after the
\* engine of the same run returned a verdict to intervene.
C25_StageOrder ==
    \A t \in TaskIds :
       LET task == tasks[t]
           log == task.log
       IN  /\ Positions(task, {"resolver"}) \subseteq {1}
           /\ Len(log) > 0 => log[1] = "resolver"
           /\ Positions(task, {"router_hit", "router_miss"}) \subseteq {2}
           /\ Positions(task, {"gate_open", "gate_closed"}) \subseteq {3}
           /\ Positions(task, {"engine"}) \subseteq {4}
           /\ Logged(task, "router_hit") => Len(log) <= 3 /\ NoneOf(task, {"engine"} \cup Responders)
           /\ Logged(task, "gate_closed") =>
                 /\ log[2] = "router_miss"
                 /\ NoneOf(task, {"engine"} \cup Responders)
           /\ Logged(task, "gate_open") => log[2] = "router_miss"
           /\ Logged(task, "engine") =>
                 /\ log[2] = "router_miss" /\ log[3] = "gate_open"
                 /\ \/ Len(task.users) >= 1 /\ Len(task.agents) >= 2
                    \/ Len(task.users) >= 2 /\ Len(task.agents) >= 1
           /\ \A i \in Positions(task, Responders) :
                 /\ i > 4 /\ log[4] = "engine"
                 /\ task.result.should_intervene

\* One run went through the engine to the named responder and ended, and
\* one ended at the closed gate.
C25_Witness ==
    \E t \in TaskIds :
        /\ tasks[t].pc = "done"
        /\ Logged(tasks[t], "engine")
        /\ Logged(tasks[t], "named")
        /\ \E u \in TaskIds :
              /\ tasks[u].pc = "done"
              /\ Logged(tasks[u], "gate_closed")

\* How often the id stands in a list of resolved members.
Occurrences(seq, id) == Cardinality({i \in 1..Len(seq) : seq[i].id = id})

\* The first member of the list with the id.
FirstWithId(list, id) ==
    list[CHOOSE i \in 1..Len(list) :
            /\ list[i].id = id
            /\ \A j \in 1..(i - 1) : list[j].id # id]

\* C26 (as stated; a failed room query, which yields two empty lists, is not
\* held against it): no id stands twice in the two lists taken together, and
\* every member of the membership list that has an id stands in exactly one
\* of them exactly once.
C26_Original ==
    (resolverCase.applied /\ resolverCase.queryOk) =>
        LET r == resolverCase.result
            list == resolverCase.list
        IN  /\ \A i \in 1..Len(list) :
                  list[i].id # "" =>
                     Occurrences(r.users, list[i].id)
                        + Occurrences(r.agents, list[i].id) = 1
            /\ \A i \in 1..Len(r.users) :
                  /\ Occurrences(r.users, r.users[i].id) = 1
                  /\ Occurrences(r.agents, r.users[i].id) = 0
            /\ \A i \in 1..Len(r.agents) : Occurrences(r.agents, r.agents[i].id) = 1

\* The class the classification algorithm gives a member: by the identity
\* lookup, and by the keyword in the display name when the lookup fails for
\* a member without handle.
ClassOf(p) ==
    IF p.hasEmail
    THEN IF p.info = "agent" THEN "agent" ELSE "user"
    ELSE IF p.info = "agent" THEN "agent"
    ELSE IF p.info = "human" THEN "user"
    ELSE IF Contains(p.username, NameAgent) THEN "agent"
    ELSE "user"

\* C27 (as stated; a failed room query is not held against it): every member
\* with an id is put into the list of its class, as decided by its first
\* occurrence: with a handle Agent iff the lookup succeeds and flags an
\* agent, else Human; without a handle by the lookup by id, and by the
\* keyword in the display name only when that lookup fails.
C27_Original ==
    (resolverCase.applied /\ resolverCase.queryOk) =>
        LET r == resolverCase.result
            list == resolverCase.list
        IN  \A i \in 1..Len(list) :
               list[i].id # "" =>
                  IF ClassOf(FirstWithId(list, list[i].id)) = "agent"
                  THEN HasId(r.agents, list[i].id)
                  ELSE HasId(r.users, list[i].id)

\* Token and name, both in lower case, one containing the other.
EitherContains(token, name) ==
    \/ Contains(LowerStr(name), LowerStr(token))
    \/ Contains(LowerStr(token), LowerStr(name))

\* C28: the mention check finds an agent iff some @token of the text and
\* some agent of the list are such that, case aside, the name contains the
\* token or the token the name; the agent found is the first of the list
\* matching the earliest token that matches any agent; without a token or
\* without an agent nothing is found.
C28_RouterMatch ==
    routerCase.applied =>
        LET tokens == FindMentions(routerCase.text)
            agents == routerCase.agents
            r == routerCase.result
            Match(k, i) == EitherContains(tokens[k], agents[i].username)
        IN  /\ r \in 0..Len(agents)
            /\ r # 0 <=> \E k \in 1..Len(tokens), i \in 1..Len(agents) : Match(k, i)
            /\ r # 0 =>
                  \E k \in 1..Len(tokens) :
                     /\ Match(k, r)
                     /\ \A j \in 1..(r - 1) : ~Match(k, j)
                     /\ \A l \in 1..(k - 1), i \in 1..Len(agents) : ~Match(l, i)
            /\ (tokens = << >> \/ agents = << >>) => r = 0

\* The text "@x @ki" with the agents bot and kin: the first token matches
\* nobody, the second is contained in the second agent's name.
C28_Witness ==
    /\ routerCase.applied
    /\ routerCase.text = << "@", "x", " ", "@", "k", "i" >>
    /\ routerCase.agents = << [username |-> NameBot], [username |-> NameKim] >>
    /\ routerCase.result = 2

LineCount(text) ==
    IF text = << >> THEN 0
    ELSE 1 + Cardinality({i \in 1..Len(text) : text[i] = "\n"})

\* The place of the first of the last five turns of a history of n turns.
FirstRecent(n) == IF n > 5 THEN n - 4 ELSE 1

\* No turn before the last five has its content in the text.
EarlierAbsent(history, text) ==
    \A i \in 1..(FirstRecent(Len(history)) - 1), j \in 1..Len(text) :
        text[j] # history[i].content

\* C30 (as stated): with limit 5 the text has one line per turn of the last
\* five turns of the history (of all its turns when there are fewer), and
\* no turn before these appears.
C30_Original ==
    historyCase.applied =>
        LET h == historyCase.history
        IN  /\ LineCount(historyCase.result) = Len(h) - FirstRecent(Len(h)) + 1
            /\ EarlierAbsent(h, historyCase.result)

\* C30 (amended): with limit 5 the text for a history that is not empty has
\* one entry for each of its last five turns that carries a message (turns
\* without a message are left out), oldest first, each of the form
\* [role] name: content with "user", "Unknown" and the empty string for a
\* missing role, name and content, the entries joined by line breaks; no
\* turn before the last five appears.  For an empty history the text is
\* the fixed sentence saying that there is no history.
C30_LastFive ==
    historyCase.applied =>
        LET h == historyCase.history
            n == Len(h)
            k == FirstRecent(n)
            Kept == {i \in k..n : h[i].kind # "none"}
            Nth(j) == CHOOSE i \in Kept : Cardinality({l \in Kept : l < i}) = j - 1
            Entry(i) == IF h[i].kind = "full"
                        THEN << "[", "assistant", "] ", "kim", ": ", h[i].content >>
                        ELSE << "[", "user", "] ", "Unknown", ": ", "" >>
            entries == [j \in 1..Cardinality(Kept) |-> Entry(Nth(j))]
        IN  /\ h = << >> => historyCase.result = NoHistoryText
            /\ h # << >> =>
                  /\ historyCase.result = JoinLines(entries)
                  /\ LineCount(historyCase.result) = Cardinality(Kept)
            /\ EarlierAbsent(h, historyCase.result)

\* Six turns, the fourth without a message: the text has the four entries
\* of the turns 2, 3, 5 and 6.
C30_Witness ==
    /\ historyCase.applied
    /\ Len(historyCase.history) = 6
    /\ \A i \in 1..6 : historyCase.history[i].kind = (IF i = 4 THEN "none" ELSE "full")
    /\ LineCount(historyCase.result) = 4
    /\ historyCase.result[6] = "c2"

\* C31: in the catalogue an agent whose type is a key of the capability table
\* gets the table's description and keeps its type whatever its name is; the
\* name changes the shown type only of an agent whose type is absent, "agent"
\* or empty, and decides the description only of a type outside the table.
TableTypes == {"translation", "business_term", "email", "email_writing", "default"}

C31_TableFirst ==
    catalogueCase.applied =>
        LET t == catalogueCase.agent_type
            r == catalogueCase.result
        IN  /\ t \in TableTypes =>
                  /\ r.agent_type = t
                  /\ r.capabilities.text = (IF t = "email_writing" THEN "email" ELSE t)
            /\ r.agent_type # t => t \in {"absent", "agent", "", "None"}
            /\ r.capabilities.text \notin {"generic", r.agent_type} =>
                  \/ r.agent_type \notin TableTypes
                  \/ r.agent_type = "email_writing"

C31_Witness ==
    /\ catalogueCase.applied
    /\ catalogueCase.agent_type = "email"
    /\ Contains(catalogueCase.username, KwTranslation)
    /\ catalogueCase.result.capabilities.text = "email"

\* C32 (as stated): in every reachable state the stored intervention record
\* of a message is consistent: status checking goes with should_intervene
\* null, intervening and completed with true, not_intervening and failed with
\* false.
C32_Original ==
    \A m \in MsgIds :
        LET r == msgs[m].intervention
        IN  /\ r.status = "checking" => r.should_intervene = "null"
            /\ r.status \in {"intervening", "completed"} => r.should_intervene = "true"
            /\ r.status \in {"not_intervening", "failed"} => r.should_intervene = "false"

\* C33 (as stated): for a message of a group room the intervention_status
\* column equals the status of json_content.intervention after every status
\* write, of the ingress and of a run, whichever responder completed the run.
C33_Original ==
    [][\A m \in MsgIds :
          /\ msgs'[m] # msgs[m]
          /\ ChatType(msgs'[m].room) = "group"
          => msgs'[m].col = msgs'[m].intervention.status]_vars

\* C34 (as stated): the response of a run is appended to the store that goes
\* with the room of its message: to the group message store if and only if
\* the room is a group room, on the named, the fallback and the default path.
C34_Original ==
    [][\A r \in NewResponses :
          (r.store = "group") <=> (ChatType(r.room) = "group")]_vars

RowsOf(logs, m) == SelectSeq(logs, LAMBDA row : row.message_id = m)

\* C38: a step of a run changes the stored record and the audit rows of no
\* message but its own, also while a run of another message is in flight.
C38_OwnMessageOnly ==
    [][\A t \in TaskIds :
          tasks'[t] # tasks[t] =>
              \A m \in MsgIds \ {tasks[t].message_id} :
                  /\ msgs'[m] = msgs[m]
                  /\ RowsOf(auditLogs', m) = RowsOf(auditLogs, m)]_vars

C38_Witness ==
    \E t1, t2 \in TaskIds :
        /\ tasks[t1].message_id # tasks[t2].message_id
        /\ tasks[t1].pc = "done"
        /\ Logged(tasks[t1], "write_completed")
        /\ tasks[t2].pc = "await_decision"
        /\ Stored(t1).status = "completed"
        /\ Stored(t2).status = "checking"
        /\ RowsOf(auditLogs, tasks[t1].message_id) # << >>
        /\ RowsOf(auditLogs, tasks[t2].message_id) # << >>

\* C36 (as stated): the Decision Engine answers should_intervene = true only
\* for a decoded object whose should_intervene is the boolean true; for a
\* missing, null or false value, for a value that is no boolean (the string
\* "false") and for a payload that is no object it answers false.
C36_Original ==
    engineCase.applied =>
        (engineCase.result.should_intervene
            => /\ engineCase.raw.shape = "object"
               /\ engineCase.raw.should_intervene = "true")

\* C39 (as stated): process_outbound_notify never raises, and a queue record
\* it inserted is not PENDING when the call returns: it is RINGING (phone) or
\* COMPLETED (sms) only if the telephony request succeeded and FAILED only if
\* the request failed.
C39_Original ==
    notifyCase.applied =>
        /\ ~notifyCase.raised
        /\ notifyCase.queue # "PENDING"
        /\ notifyCase.queue = "RINGING" =>
              notifyCase.requestOk /\ notifyCase.channel = "phone"
        /\ notifyCase.queue = "COMPLETED" =>
              notifyCase.requestOk /\ notifyCase.channel = "sms"
        /\ notifyCase.queue = "FAILED" => ~notifyCase.requestOk

\* Whether each source of a definition yields a row in the case at hand.
Yields(c) ==
    [arcv |-> c.arcv_id /\ c.fetcher /\ c.arcvRows = "row",
     exact |-> c.version_tag \in {"major", "Minor"} /\ c.version /\ c.exactRows = "row",
     prod_arcv |-> c.proc_def = "prod" /\ c.fetcher /\ c.prodArcvRows = "row",
     prod_version |-> c.proc_def = "prod" /\ c.prodVersionRows = "row",
     major |-> c.majorRows # << >>,
     minor |-> c.minorRows # << >>,
     proc_def |-> TRUE]

Priority == << "arcv", "exact", "prod_arcv", "prod_version", "major", "minor", "proc_def" >>

\* C40: for an empty def_id the lookup returns None; otherwise, when it
\* returns, the definition comes from the first of the sources arcv_id, exact tag and version,
\* prod_version as archive id, prod_version as version, latest major, latest
\* minor, proc_def.definition that yields a row, and a row taken from a
\* version list is one whose version is the largest number of the list.
C40_Priority ==
    versionCase.applied =>
        LET c == versionCase
            r == c.result
        IN  IF c.def_id = "" THEN r.from = "none"
            ELSE IF r.from = "raised"
            THEN \/ c.proc_def = "raise"
                 \/ ~c.listsOk /\ \A j \in 1..4 : ~Yields(c)[Priority[j]]
            ELSE \E k \in 1..Len(Priority) :
                    /\ r.from = Priority[k]
                    /\ Yields(c)[Priority[k]]
                    /\ \A j \in 1..(k - 1) : ~Yields(c)[Priority[j]]
                    /\ r.from \in {"major", "minor"} =>
                          LET rows == IF r.from = "major" THEN c.majorRows ELSE c.minorRows
                          IN  /\ \E i \in 1..Len(rows) : rows[i] = r.version
                              /\ \A i \in 1..Len(rows) :
                                    version_as_float(rows[i]) <= version_as_float(r.version)

C40_Witness ==
    /\ versionCase.applied
    /\ versionCase.def_id = "p"
    /\ versionCase.arcv_id /\ versionCase.fetcher /\ versionCase.arcvRows = "raise"
    /\ versionCase.version_tag = "Minor" /\ versionCase.version
    /\ versionCase.exactRows = "empty"
    /\ versionCase.proc_def = "prod"
    /\ versionCase.prodArcvRows = "empty" /\ versionCase.prodVersionRows = "raise"
    /\ versionCase.majorRows = << "2", "10" >>
    /\ versionCase.minorRows # << >>
    /\ versionCase.result = [from |-> "major", version |-> "10"]

====
